---- MODULE Spec2Model ----
(***************************************************************************)
(* Interaction callbacks of the gateway: the Mattermost token codec        *)
(* (secret derivation, canonical serialisation, sign, verify), and the     *)
(* Mattermost HTTP interaction handler.                                    *)
(*                                                                         *)
(* JSON values are trees of nodes [t, k, v, kids]:                         *)
(*   t    the kind: "str", "num", "lit" (null/true/false), "obj", "arr"    *)
(*   k    the key under which the node sits in its parent object ("" for   *)
(*        the root and for array elements)                                 *)
(*   v    the text of a number or literal                                  *)
(*   kids the members of an object in insertion order (keys distinct), the *)
(*        elements of an array, or the segments of a string                *)
(*                                                                         *)
(* A string is a sequence of segments [seg, d, from, to], each standing    *)
(* for a run of UTF-16 code units:                                         *)
(*   "text" the ASCII text d, of `to` code units                           *)
(*   "unit" the single code unit d (ASCII or not)                          *)
(*   "hex"  the code units from..to of the hexadecimal digest named d      *)
(* Object keys are plain strings.                                          *)
(***************************************************************************)
EXTENDS Integers, Sequences, FiniteSets, TLC

VARIABLES
    interactionSecret,  \* the module-level signing secret, Undefined until set
    cdPhase,            \* codec harness: "idle" | "signed" | "verified" | "threw"
    cdCtx,              \* the context that was signed
    cdToken,            \* the token issued for cdCtx (a string: segments)
    cdSecret,           \* the secret in force when cdToken was issued
    cdKind,             \* which verification was made: "permute" | "mutate" | "candidate"
    cdArg,              \* the context handed to verifyInteractionToken
    cdTok,              \* the token handed to verifyInteractionToken
    cdVerSecret,        \* the secret in force when it was verified
    cdResult,           \* its outcome: "none" | "true" | "false" | "throws"
    cdBotToken,         \* the bot token last handed to setInteractionSecret ("none" before)
    bbPhase,            \* button builder harness: "idle" | "built" | "threw"
    bbParams,           \* the argument of buildButtonAttachments
    bbResult,           \* the attachments it returned
    bbSecret,           \* the secret in force when it was called
    callbackUrls,       \* the callback URL registry: accountId -> url, Undefined where unset
    cbQuery,            \* the last registry call: fn, accountId, url, cfg
    cbResult,           \* what it returned
    pc,                 \* the handler invocation: "idle" | "reading" | "resolving" |
                        \*   "fetching" | "updating" | "done" | "threw"
    params,             \* the handler's parameters: accountId, whether resolveSessionKey is given
    req,                \* the request: method, remoteAddress, body
    rd,                 \* readInteractionBody: totalBytes, chunks, timer, promise, stream
    payload,            \* the parsed payload, once the gates are passed
    res,                \* the response: statusCode, headers, body, number of end() calls
    calls,              \* the collaborator calls made, in order
    logs,               \* the messages handed to log, in order
    slMessage,          \* Slack: the blocks of the message as the platform stores it
    slInv,              \* Slack: the handler invocations: pc, action, body, calls
    mmPost,             \* Mattermost: the post as the server stores it: message, props
    mmFirst             \* Mattermost: the first delivery of a callback, once it is over

cdVars == <<cdPhase, cdCtx, cdToken, cdSecret, cdKind, cdArg, cdTok, cdVerSecret, cdResult>>
buttonVars == <<bbPhase, bbParams, bbResult, bbSecret>>
registryVars == <<callbackUrls, cbQuery, cbResult>>
codecVars == <<cdVars, cdBotToken, buttonVars, registryVars>>
handlerVars == <<pc, params, req, rd, payload, res, calls, logs>>
slackVars == <<slMessage, slInv>>
storeVars == <<mmPost, mmFirst>>
vars == <<interactionSecret, codecVars, handlerVars, slackVars, storeVars>>

---------------------------------------------------------------------------
(* Sequences and sets.                                                     *)

Range(s) == {s[i] : i \in 1..Len(s)}

\* Every sequence that lists each element of the finite set S exactly once.
OrderingsOf(S) ==
    {f \in [1..Cardinality(S) -> S] : \A i, j \in 1..Cardinality(S) : f[i] = f[j] => i = j}

RECURSIVE ConcatAll(_)
ConcatAll(ss) == IF ss = <<>> THEN "" ELSE Head(ss) \o ConcatAll(Tail(ss))

RECURSIVE JoinComma(_)
JoinComma(ss) ==
    IF ss = <<>> THEN ""
    ELSE IF Len(ss) = 1 THEN Head(ss)
    ELSE Head(ss) \o "," \o JoinComma(Tail(ss))

---------------------------------------------------------------------------
(* JSON values.                                                            *)

\* Strings.
Text(s) == [seg |-> "text", d |-> s, from |-> 1, to |-> Len(s)]
Unit(c) == [seg |-> "unit", d |-> c, from |-> 1, to |-> 1]
HexRun(digest, i, j) == [seg |-> "hex", d |-> digest, from |-> i, to |-> j]

SegLength(g) == IF g.to < g.from THEN 0 ELSE g.to - g.from + 1
SegUnits(g) ==
    CASE g.seg = "text" -> [n \in 1..SegLength(g) |-> g.d \o "#" \o ToString(n)]
      [] g.seg = "unit" -> <<g.d>>
      [] g.seg = "hex"  -> [n \in 1..SegLength(g) |-> "x" \o ToString(g.from + n - 1) \o ":" \o g.d]

\* The UTF-16 code units of a string, and String.prototype.length.
RECURSIVE CodeUnits(_)
CodeUnits(segs) == IF segs = <<>> THEN <<>> ELSE SegUnits(Head(segs)) \o CodeUnits(Tail(segs))
RECURSIVE StringLength(_)
StringLength(segs) == IF segs = <<>> THEN 0 ELSE SegLength(Head(segs)) + StringLength(Tail(segs))

\* The characters of a string as one text (used inside other texts).
SegText(g) ==
    CASE g.seg = "text" -> g.d
      [] g.seg = "unit" -> g.d
      [] g.seg = "hex"  -> IF SegLength(g) = 0 THEN ""
                           ELSE g.d \o "[" \o ToString(g.from) \o ".." \o ToString(g.to) \o "]"
StringText(segs) == ConcatAll([i \in 1..Len(segs) |-> SegText(segs[i])])

StrU(segs) == [t |-> "str", k |-> "", v |-> "", kids |-> segs]
Str(s)  == StrU(<<Text(s)>>)
Num(s)  == [t |-> "num", k |-> "", v |-> s, kids |-> <<>>]
Lit(s)  == [t |-> "lit", k |-> "", v |-> s, kids |-> <<>>]
Obj(ms) == [t |-> "obj", k |-> "", v |-> "", kids |-> ms]
Arr(es) == [t |-> "arr", k |-> "", v |-> "", kids |-> es]
Member(key, n) == [n EXCEPT !.k = key]
\* The JavaScript value undefined.
UndefinedValue == [t |-> "undefined", k |-> "", v |-> "", kids |-> <<>>]

IsScalar(n) == n.t \in {"str", "num", "lit"}
OwnKeys(o) == [i \in 1..Len(o.kids) |-> o.kids[i].k]
HasKey(o, key) == o.t = "obj" /\ \E i \in 1..Len(o.kids) : o.kids[i].k = key
Get(o, key) == o.kids[CHOOSE i \in 1..Len(o.kids) : o.kids[i].k = key]

---------------------------------------------------------------------------
(* JSON.stringify(value, replacer).  With an array replacer the array is   *)
(* the property list of EVERY object of the value, at any depth: an object *)
(* is written with exactly the listed keys it owns, in the order of the    *)
(* list.  Without a replacer an object is written with its own keys in     *)
(* insertion order.  Arrays are written element by element either way.     *)
(* The strings of the model hold no character that JSON escapes.           *)

Quote(s) == "\"" \o s \o "\""

RECURSIVE SerializeJSONProperty(_, _, _)
SerializeJSONProperty(n, hasList, propertyList) ==
    CASE n.t = "str" -> Quote(StringText(n.kids))
      [] n.t \in {"num", "lit"} -> n.v
      [] n.t = "arr" ->
            "[" \o JoinComma([i \in 1..Len(n.kids) |->
                    SerializeJSONProperty(n.kids[i], hasList, propertyList)]) \o "]"
      [] n.t = "obj" ->
            LET keys == IF hasList THEN propertyList ELSE OwnKeys(n)
                present == SelectSeq(keys, LAMBDA key : HasKey(n, key))
            IN  "{" \o JoinComma([i \in 1..Len(present) |->
                        Quote(present[i]) \o ":" \o
                        SerializeJSONProperty(Get(n, present[i]), hasList, propertyList)])
                \o "}"

JSONStringify(value) == SerializeJSONProperty(value, FALSE, <<>>)
JSONStringifyWithList(value, list) == SerializeJSONProperty(value, TRUE, list)

\* Array.prototype.sort() without a comparator orders strings by UTF-16 code
\* units.  CodeUnitOrder lists the key strings of the model in that order
\* ("_" is 0x5F, below the lower-case letters).
CodeUnitOrder == <<"_token", "action_id", "id", "item", "note">>
Rank(s) == CHOOSE i \in 1..Len(CodeUnitOrder) : CodeUnitOrder[i] = s

RECURSIVE SortInsert(_, _)
SortInsert(x, s) ==
    IF s = <<>> THEN <<x>>
    ELSE IF Rank(x) <= Rank(Head(s)) THEN <<x>> \o s
    ELSE <<Head(s)>> \o SortInsert(x, Tail(s))

RECURSIVE ArraySort(_)
ArraySort(s) == IF s = <<>> THEN <<>> ELSE SortInsert(Head(s), ArraySort(Tail(s)))

---------------------------------------------------------------------------
(* HMAC-SHA256 rendered as hexadecimal: an ideal keyed hash.  The digest   *)
(* of (key, message) is a string of HexDigestLen ASCII code units; digests *)
(* of different (key, message) pairs differ.  HmacHexText names the digest *)
(* (the name stands for the hex string where it is used as a key),         *)
(* HmacHex is the hex string.                                              *)

HexDigestLen == 64

HmacHexText(key, msg) == "hmac(" \o key \o "," \o msg \o ")"
HmacHex(key, msg) == <<HexRun(HmacHexText(key, msg), 1, HexDigestLen)>>

\* Buffer.from(string), given the string's code units: the UTF-8 bytes.  An ASCII code unit is one byte; the
\* non-ASCII code units of the model take two or three.
TwoByteUnits == {"U+00E9"}
ThreeByteUnits == {"U+20AC"}
Utf8Width(u) == IF u \in TwoByteUnits THEN 2 ELSE IF u \in ThreeByteUnits THEN 3 ELSE 1

RECURSIVE BufferFrom(_)
BufferFrom(units) ==
    IF units = <<>> THEN <<>>
    ELSE [i \in 1..Utf8Width(Head(units)) |-> Head(units) \o "/" \o ToString(i)]
         \o BufferFrom(Tail(units))

\* crypto.timingSafeEqual(a, b): a RangeError when the byte lengths differ.
timingSafeEqual(a, b) ==
    IF Len(a) # Len(b) THEN "throws"
    ELSE IF a = b THEN "true" ELSE "false"

---------------------------------------------------------------------------
(* Secret and token codec.                                                 *)

Undefined == "undefined"
SecretLabel == "openclaw-mattermost-interactions"

\* setInteractionSecret(botToken): the value stored.
DerivedSecret(botToken) == HmacHexText(SecretLabel, botToken)

\* A getter that hands out the secret without looking at it.
getInteractionSecretUnchecked(secret) == [threw |-> FALSE, value |-> secret]

\* getInteractionSecret(): throws while the secret is not set.
getInteractionSecret(secret) ==
    IF secret = Undefined THEN [threw |-> TRUE, value |-> Undefined]
    ELSE [threw |-> FALSE, value |-> secret]

\* The context serialised in its own insertion order, keys left unsorted.
TokenPayloadUnsorted(context) == JSONStringify(context)

\* The bytes that are signed.
TokenPayload(context) == JSONStringifyWithList(context, ArraySort(OwnKeys(context)))

generateInteractionToken(secret, context) ==
    LET s == getInteractionSecret(secret) IN
    IF s.threw THEN [threw |-> TRUE, token |-> <<>>]
    ELSE [threw |-> FALSE, token |-> HmacHex(s.value, TokenPayload(context))]

\* A verification that compares the lengths only.
verifyLengthOnly(secret, context, token) ==
    LET expected == generateInteractionToken(secret, context) IN
    IF expected.threw THEN "throws"
    ELSE IF StringLength(expected.token) # StringLength(token) THEN "false"
    ELSE "true"

verifyInteractionToken(secret, context, token) ==
    LET expected == generateInteractionToken(secret, context) IN
    IF expected.threw THEN "throws"
    ELSE IF StringLength(expected.token) # StringLength(token) THEN "false"
    ELSE timingSafeEqual(BufferFrom(CodeUnits(expected.token)), BufferFrom(CodeUnits(token)))

\* The byte comparison inside timingSafeEqual: every pair of bytes is
\* examined, a difference is accumulated and never ends the loop.
CompareAll(a, b) == [i \in 1..Len(a) |-> a[i] # b[i]]

\* The number of byte pairs verifyInteractionToken examines: none when the
\* secret is missing, when the lengths differ, or when timingSafeEqual
\* refuses buffers of different byte lengths.
ComparisonSteps(secret, context, token) ==
    LET expected == generateInteractionToken(secret, context)
        a == BufferFrom(CodeUnits(expected.token))
        b == BufferFrom(CodeUnits(token))
    IN  IF expected.threw THEN 0
        ELSE IF StringLength(expected.token) # StringLength(token) THEN 0
        ELSE IF Len(a) # Len(b) THEN 0
        ELSE Len(CompareAll(a, b))

---------------------------------------------------------------------------
(* Button builder.  A button argument is [id, name, style, context]: style *)
(* is Undefined when absent, context is UndefinedValue when absent.  A     *)
(* built button is [id, type, name, style, integration: [url, context]].   *)

\* obj[key] = value: an existing key keeps its place, a new key goes last.
SetKey(obj, key, value) ==
    IF HasKey(obj, key)
    THEN [obj EXCEPT !.kids = [i \in 1..Len(@) |-> IF @[i].k = key THEN Member(key, value) ELSE @[i]]]
    ELSE [obj EXCEPT !.kids = Append(@, Member(key, value))]

\* { ...target, ...source }: the own members of source, in order; the spread
\* of undefined adds nothing.
RECURSIVE SpreadFrom(_, _, _)
SpreadFrom(target, source, i) ==
    IF source.t # "obj" \/ i > Len(source.kids) THEN target
    ELSE SpreadFrom(SetKey(target, source.kids[i].k, source.kids[i]), source, i + 1)
Spread(target, source) == SpreadFrom(target, source, 1)

\* const context = { action_id: btn.id, ...btn.context }
SignedContext(btn) == Spread(Obj(<<Member("action_id", Str(btn.id))>>), btn.context)

\* One element of params.buttons.map(...).
BuildButton(secret, callbackUrl, btn) ==
    LET context == SignedContext(btn)
        signed == generateInteractionToken(secret, context)
    IN [threw |-> signed.threw,
        value |-> [id |-> btn.id, type |-> "button", name |-> btn.name, style |-> btn.style,
                   integration |-> [url |-> callbackUrl,
                                    context |-> SetKey(context, "_token", StrU(signed.token))]]]

\* buildButtonAttachments(params): the first button that cannot be signed
\* ends the call with the exception of getInteractionSecret.
buildButtonAttachments(secret, p) ==
    LET built == [i \in 1..Len(p.buttons) |-> BuildButton(secret, p.callbackUrl, p.buttons[i])]
    IN IF \E i \in 1..Len(built) : built[i].threw
       THEN [threw |-> TRUE, value |-> <<>>]
       ELSE [threw |-> FALSE,
             value |-> <<[text |-> IF p.text = Undefined THEN "" ELSE p.text,
                          actions |-> [i \in 1..Len(built) |-> built[i].value]]>>]

---------------------------------------------------------------------------
(* The inputs of the codec: contexts as the gateway builds them and as the *)
(* platform echoes them back.                                              *)

MaxArrLen == 1

BotTokens == {"token-a", "token-b"}
ScalarValues == {Str("x"), Num("1")}
TopKeys == {"action_id", "item"}
\* "item" is also a top-level key, "id" is a key of nested objects only.
InnerKeys == {"id", "item"}

\* Every member list over a subset of the keys, in every insertion order.
MemberSeqs(keys, values) ==
    UNION {{[i \in 1..Len(ord) |-> Member(ord[i], f[ord[i]])] :
                f \in [ks -> values], ord \in OrderingsOf(ks)} : ks \in SUBSET keys}

InnerObjects == {Obj(ms) : ms \in MemberSeqs(InnerKeys, {Num("1")})}
ArrayElements == ScalarValues \cup {Obj(<<Member("id", Num("1"))>>)}
Arrays == UNION {{Arr(es) : es \in [1..n -> ArrayElements]} : n \in 0..MaxArrLen}
ContextValues == ScalarValues \cup InnerObjects \cup Arrays
Contexts == {Obj(ms) : ms \in MemberSeqs(TopKeys, ContextValues)}

\* The same value with the keys of its objects reordered, at any depth.
RECURSIVE KeyPermutations(_)
KeyPermutations(n) ==
    IF n.t \notin {"obj", "arr"} THEN {n}
    ELSE LET len == Len(n.kids)
             choices == {c \in [1..len -> UNION {KeyPermutations(n.kids[i]) : i \in 1..len}] :
                            \A i \in 1..len : c[i] \in KeyPermutations(n.kids[i])}
             orders == IF n.t = "obj" THEN OrderingsOf(1..len) ELSE {[i \in 1..len |-> i]}
         IN  {[n EXCEPT !.kids = [j \in 1..len |-> c[o[j]]]] : c \in choices, o \in orders}

\* The same value with exactly one scalar leaf changed, at any depth.
RECURSIVE LeafMutations(_)
LeafMutations(n) ==
    IF IsScalar(n) THEN {Member(n.k, s) : s \in ScalarValues \cup {Str("y")}} \ {n}
    ELSE UNION {{[n EXCEPT !.kids[i] = m] : m \in LeafMutations(n.kids[i])} :
                    i \in 1..Len(n.kids)}

\* Token strings a caller may submit against an issued token: the token itself,
\* one code unit replaced (ASCII or not), one code unit fewer or more, the empty
\* string, a short word, half as many two-byte code units (as many bytes as the
\* digest), and a token issued for another context or under another secret.
ForeignUnits == {"0", "U+00E9", "U+20AC"}
VerifyContexts ==
    { Obj(<<Member("action_id", Str("x"))>>),
      Obj(<<Member("action_id", Str("x")), Member("item", Num("1"))>>),
      Obj(<<Member("item", Obj(<<Member("id", Num("1"))>>)), Member("action_id", Str("x"))>>) }
TokenCandidates(tok) ==
    LET digest == tok[1].d IN
    {tok}
    \cup {<<HexRun(digest, 1, i - 1), Unit(c), HexRun(digest, i + 1, HexDigestLen)>> :
              i \in 1..HexDigestLen, c \in ForeignUnits}
    \cup {<<HexRun(digest, 1, HexDigestLen - 1)>>, tok \o <<Unit("0")>>, <<>>, <<Text("short")>>,
          [i \in 1..(HexDigestLen \div 2) |-> Unit("U+00E9")]}
    \cup {HmacHex(DerivedSecret(b), TokenPayload(c)) : b \in BotTokens, c \in VerifyContexts}

---------------------------------------------------------------------------
(* The shared state and the codec operations.                              *)

EmptyObject == Obj(<<>>)
AccountIds == {"default", "work"}
HandlerParams == [accountId : AccountIds, hasResolver : BOOLEAN]

NoRequest == [method |-> "", socket |-> FALSE, remoteAddress |-> Undefined,
              body |-> [json |-> FALSE, value |-> UndefinedValue]]
RdIdle == [totalBytes |-> 0, chunks |-> <<>>, events |-> 0, timer |-> "none",
           promise |-> "none", stream |-> "open", destroyed |-> FALSE]
\* A fresh ServerResponse: statusCode is 200 until it is set.
ResInit == [statusCode |-> 200, allow |-> "", contentType |-> "", body |-> "", ended |-> 0]

\* No invocation in progress.
HandlerIdle ==
    /\ pc = "idle"
    /\ req = NoRequest
    /\ rd = RdIdle
    /\ payload = UndefinedValue
    /\ res = ResInit
    /\ calls = <<>>
    /\ logs = <<>>

\* createMattermostInteractionHandler(params): the parameters are fixed for
\* the life of the handler.
HandlerInit == params \in HandlerParams /\ HandlerIdle

NoButtons == [callbackUrl |-> "", buttons |-> <<>>, text |-> Undefined]
ButtonsIdle ==
    /\ bbPhase = "idle"
    /\ bbParams = NoButtons
    /\ bbResult = <<>>
    /\ bbSecret = Undefined

\* new Map(): no account has a callback URL.
NoQuery == [fn |-> "none", accountId |-> "", url |-> "", cfg |-> UndefinedValue]
RegistryInit ==
    /\ callbackUrls = [a \in AccountIds |-> Undefined]
    /\ cbQuery = NoQuery
    /\ cbResult = Undefined

\* Mattermost: no post looked at, no delivery made.
NoPost == [message |-> Undefined, props |-> UndefinedValue]
NoDelivery == [req |-> NoRequest, res |-> ResInit, calls |-> <<>>, post |-> NoPost]
StoreIdle ==
    /\ mmPost = NoPost
    /\ mmFirst = NoDelivery

\* Slack: no message posted, no click being handled.
SlackHandlers == {1, 2}
NoAction == [action_id |-> <<>>, block_id |-> "", text |-> Undefined, value |-> Undefined]
NoBody == [channel |-> Undefined, ts |-> Undefined, hasMessage |-> FALSE, blocks |-> <<>>]
NoInvocation == [pc |-> "idle", action |-> NoAction, body |-> NoBody, calls |-> <<>>]
SlackIdle ==
    /\ slMessage = <<>>
    /\ slInv = [h \in SlackHandlers |-> NoInvocation]

CodecInit ==
    /\ cdPhase = "idle"
    /\ cdCtx = EmptyObject
    /\ cdToken = <<>>
    /\ cdSecret = Undefined
    /\ cdKind = "none"
    /\ cdArg = EmptyObject
    /\ cdTok = <<>>
    /\ cdVerSecret = Undefined
    /\ cdResult = "none"
    /\ cdBotToken = "none"
    /\ ButtonsIdle
    /\ RegistryInit

\* A secret that is generated once and kept: a later call changes nothing.
setInteractionSecretOnce(botToken) ==
    /\ interactionSecret' = IF interactionSecret = Undefined THEN DerivedSecret(botToken)
                            ELSE interactionSecret
    /\ cdBotToken' = botToken
    /\ UNCHANGED <<cdVars, buttonVars, registryVars, handlerVars, slackVars, storeVars>>

setInteractionSecret(botToken) ==
    /\ interactionSecret' = DerivedSecret(botToken)
    /\ cdBotToken' = botToken
    /\ UNCHANGED <<cdVars, buttonVars, registryVars, handlerVars, slackVars, storeVars>>

\* generateInteractionToken(context) is called.
CdGenerate(context) ==
    /\ cdPhase = "idle"
    /\ LET g == generateInteractionToken(interactionSecret, context) IN
       /\ cdPhase' = IF g.threw THEN "threw" ELSE "signed"
       /\ cdResult' = IF g.threw THEN "throws" ELSE "none"
       /\ cdCtx' = context
       /\ cdToken' = g.token
       /\ cdSecret' = interactionSecret
    /\ UNCHANGED <<interactionSecret, cdKind, cdArg, cdTok, cdVerSecret, handlerVars, slackVars, storeVars>>
    /\ UNCHANGED <<cdBotToken, buttonVars, registryVars>>

\* verifyInteractionToken(arg, tok) is called.
CdVerify(kind, arg, tok) ==
    /\ cdPhase = "signed"
    /\ cdPhase' = "verified"
    /\ cdKind' = kind
    /\ cdArg' = arg
    /\ cdTok' = tok
    /\ cdVerSecret' = interactionSecret
    /\ cdResult' = verifyInteractionToken(interactionSecret, arg, tok)
    /\ UNCHANGED <<interactionSecret, cdCtx, cdToken, cdSecret, handlerVars, slackVars, storeVars>>
    /\ UNCHANGED <<cdBotToken, buttonVars, registryVars>>

CdVerifyPermuted ==
    /\ cdPhase = "signed"
    /\ \E arg \in KeyPermutations(cdCtx) : CdVerify("permute", arg, cdToken)
CdVerifyMutated ==
    /\ cdPhase = "signed"
    /\ \E arg \in LeafMutations(cdCtx) : CdVerify("mutate", arg, cdToken)
CdVerifyCandidate ==
    /\ cdPhase = "signed"
    /\ \E tok \in TokenCandidates(cdToken) : CdVerify("candidate", cdCtx, tok)

CdReset ==
    /\ cdPhase \in {"verified", "threw"}
    /\ cdPhase' = "idle"
    /\ cdCtx' = EmptyObject
    /\ cdToken' = <<>>
    /\ cdSecret' = Undefined
    /\ cdKind' = "none"
    /\ cdArg' = EmptyObject
    /\ cdTok' = <<>>
    /\ cdVerSecret' = Undefined
    /\ cdResult' = "none"
    /\ UNCHANGED <<interactionSecret, handlerVars, slackVars, storeVars, cdBotToken, buttonVars,
                 registryVars>>

\* Canonicalisation: contexts of every shape, echoed back reordered or altered.
InitCanon ==
    /\ interactionSecret = Undefined
    /\ CodecInit
    /\ StoreIdle
    /\ SlackIdle
    /\ params = [accountId |-> "default", hasResolver |-> FALSE]
    /\ HandlerIdle
NextCanon ==
    \/ \E b \in BotTokens : setInteractionSecret(b)
    \/ \E c \in Contexts : CdGenerate(c)
    \/ CdVerifyPermuted
    \/ CdVerifyMutated
    \/ CdReset
SpecCanon == InitCanon /\ [][NextCanon]_vars

\* Verification: every kind of submitted token string.
NextVerify ==
    \/ \E b \in BotTokens : setInteractionSecret(b)
    \/ \E c \in VerifyContexts : CdGenerate(c)
    \/ CdVerifyCandidate
    \/ CdReset
SpecVerify == InitCanon /\ [][NextVerify]_vars

\* verifyInteractionToken(c, tok) is called in this process for a token that
\* another process, initialised with the bot token b, issued for c.  cdSecret
\* is the secret of the issuing process.
CdVerifyForeign(b, c) ==
    /\ cdPhase = "idle"
    /\ LET tok == HmacHex(DerivedSecret(b), TokenPayload(c)) IN
       /\ cdPhase' = "verified"
       /\ cdKind' = "foreign"
       /\ cdCtx' = c
       /\ cdToken' = tok
       /\ cdSecret' = DerivedSecret(b)
       /\ cdArg' = c
       /\ cdTok' = tok
       /\ cdVerSecret' = interactionSecret
       /\ cdResult' = verifyInteractionToken(interactionSecret, c, tok)
    /\ UNCHANGED <<interactionSecret, cdBotToken, buttonVars, registryVars, handlerVars, slackVars, storeVars>>

\* The buttons a message is sent with.
MaxButtons == 2
ButtonIds == {"approve", "deny"}
ButtonStyles == {Undefined, "primary"}
ButtonExtraContexts ==
    { UndefinedValue,
      Obj(<<Member("item", Num("1"))>>),
      Obj(<<Member("_token", Str("x"))>>),
      Obj(<<Member("action_id", Str("other"))>>) }
ButtonArgs == [id : ButtonIds, name : {"Click"}, style : ButtonStyles, context : ButtonExtraContexts]
ButtonParams ==
    [callbackUrl : {"http://localhost:18789/mattermost/interactions/default"},
     buttons : UNION {[1..n -> ButtonArgs] : n \in 0..MaxButtons},
     text : {Undefined, "Pick one"}]

\* buildButtonAttachments(p) is called.
BuildButtons(p) ==
    /\ bbPhase = "idle"
    /\ LET built == buildButtonAttachments(interactionSecret, p) IN
       /\ bbPhase' = IF built.threw THEN "threw" ELSE "built"
       /\ bbResult' = built.value
    /\ bbParams' = p
    /\ bbSecret' = interactionSecret
    /\ UNCHANGED <<interactionSecret, cdVars, cdBotToken, registryVars, handlerVars, slackVars, storeVars>>

BbReset ==
    /\ bbPhase # "idle"
    /\ bbPhase' = "idle"
    /\ bbParams' = NoButtons
    /\ bbResult' = <<>>
    /\ bbSecret' = Undefined
    /\ UNCHANGED <<interactionSecret, cdVars, cdBotToken, registryVars, handlerVars, slackVars, storeVars>>

\* Issuing and accepting: buttons are built, tokens are generated, and tokens
\* issued by another process are verified, one call at a time.
NextButtons ==
    \/ \E b \in BotTokens : setInteractionSecret(b)
    \/ cdPhase = "idle" /\ \E p \in ButtonParams : BuildButtons(p)
    \/ BbReset
    \/ bbPhase = "idle" /\ \E c \in VerifyContexts : CdGenerate(c)
    \/ bbPhase = "idle" /\ \E b \in BotTokens, c \in VerifyContexts : CdVerifyForeign(b, c)
    \/ CdReset
SpecButtons == InitCanon /\ [][NextButtons]_vars

---------------------------------------------------------------------------
(* Token codec: claims.                                                    *)

\* A verification made under the secret the token was issued under.
SameSecretVerified(kind) ==
    cdPhase = "verified" /\ cdKind = kind /\ cdVerSecret = cdSecret

\* C7: a token issued for a context verifies against the same context with
\* the keys of its objects reordered at any nesting depth.
C7_PermutedContextVerifies ==
    SameSecretVerified("permute") => cdResult = "true"

\* A context whose nested object was reordered (top-level order kept) verified.
C7_Witness ==
    /\ SameSecretVerified("permute")
    /\ cdArg # cdCtx
    /\ OwnKeys(cdArg) = OwnKeys(cdCtx)
    /\ Len(cdCtx.kids) = 2
    /\ cdResult = "true"

\* C8: a token issued for a context is rejected for the context with one leaf
\* value changed, at the top level or inside a nested mapping or sequence.
C8_MutatedContextRejected ==
    SameSecretVerified("mutate") => cdResult = "false"

\* C9: with the secret initialised, verifyInteractionToken returns a boolean
\* and does not throw, whatever token string is submitted.
C9_VerifyNeverThrows ==
    cdPhase = "verified" => cdResult \in {"true", "false"}

\* C10: verifyInteractionToken returns true exactly when the submitted token
\* is the token issued for that context under that secret.
C10_VerifyIffIssued ==
    SameSecretVerified("candidate") =>
        (cdResult = "true" <=> CodeUnits(cdTok) = CodeUnits(cdToken))

\* The issued token with only its last code unit replaced by another ASCII
\* code unit was submitted, and was not accepted.
C10_Witness ==
    /\ SameSecretVerified("candidate")
    /\ StringLength(cdTok) = HexDigestLen
    /\ SubSeq(CodeUnits(cdTok), 1, HexDigestLen - 1) = SubSeq(CodeUnits(cdToken), 1, HexDigestLen - 1)
    /\ CodeUnits(cdTok)[HexDigestLen] = "0"
    /\ cdResult = "false"

\* C25: for two tokens of equal length the comparison in
\* verifyInteractionToken examines every position, wherever the first
\* mismatch is: the number of comparison steps is the same for every pair
\* of equal-length inputs and the function never returns early.
C25_ComparisonExaminesEveryPosition ==
    (SameSecretVerified("candidate") /\ StringLength(cdTok) = HexDigestLen) =>
        /\ ComparisonSteps(cdVerSecret, cdArg, cdTok) = HexDigestLen
        /\ cdResult \in {"true", "false"}

---------------------------------------------------------------------------
(* JavaScript values as the handler reads them.                            *)

\* value.key: a TypeError on null, the member of an object that owns the key,
\* undefined for every other value (no key of the model is a property of a
\* string, a number, a boolean or an array).
PropertyThrows(value) == value.t = "lit" /\ value.v = "null"
GetProperty(value, key) == IF HasKey(value, key) THEN Get(value, key) ELSE UndefinedValue

\* !value
IsFalsy(value) ==
    \/ value.t = "undefined"
    \/ value.t = "lit" /\ value.v \in {"null", "false"}
    \/ value.t = "num" /\ value.v = "0"
    \/ value.t = "str" /\ StringLength(value.kids) = 0

TypeofString(value) == value.t = "str"

\* const { _token, ...rest } = context
RestWithout(context, key) ==
    [context EXCEPT !.kids = SelectSeq(context.kids, LAMBDA m : m.k # key)]

\* `${value}` of a string value.
TemplateText(value) == StringText(value.kids)

\* JSON.parse(raw): the body is given by the value its text denotes, or is
\* no JSON text at all.
JSONParse(body) ==
    IF body.json THEN [threw |-> FALSE, value |-> body.value]
    ELSE [threw |-> TRUE, value |-> UndefinedValue]

ErrorBody(message) == JSONStringify(Obj(<<Member("error", Str(message))>>))

---------------------------------------------------------------------------
(* Program constants and the requests of the model.                        *)

INTERACTION_MAX_BODY_BYTES == 65536
INTERACTION_BODY_TIMEOUT_MS == 10000
LOCALHOST_ADDRESSES == {"127.0.0.1", "::1", "::ffff:127.0.0.1"}

MaxChunks == 2
ChunkSizes == {1, INTERACTION_MAX_BODY_BYTES}

Methods == {"POST", "GET"}
RemoteAddresses == LOCALHOST_ADDRESSES \cup {"10.0.0.1", "127.0.0.2", "localhost", "", Undefined}
\* What a session resolver may return.
ResolvedSessionKeys == {"sess-1", "sess-2"}

\* The contexts buttons are issued for, and the tokens issued for them.
ButtonContexts ==
    { Obj(<<Member("action_id", Str("approve"))>>),
      Obj(<<Member("action_id", Str("approve")), Member("item", Obj(<<Member("id", Num("1"))>>))>>),
      Obj(<<Member("item", Num("1"))>>),
      Obj(<<Member("action_id", Num("1"))>>) }
IssuedToken(botToken, context) == HmacHex(DerivedSecret(botToken), TokenPayload(context))

WithToken(context, tk) == [context EXCEPT !.kids = <<Member("_token", tk)>> \o @]
WithTokenLast(context, tk) == [context EXCEPT !.kids = @ \o <<Member("_token", tk)>>]
FirstButtonContext == Obj(<<Member("action_id", Str("approve"))>>)
NestedButtonContext ==
    Obj(<<Member("action_id", Str("approve")), Member("item", Obj(<<Member("id", Num("1"))>>))>>)

\* The buttons the gateway has sent out, whose clicks come back.
CallbackUrl == "http://localhost:18789/mattermost/interactions/default"
HandlerButtons ==
    [id : {"approve"}, name : {"Click"}, style : {Undefined},
     context : {UndefinedValue,
                Obj(<<Member("item", Obj(<<Member("id", Num("1"))>>))>>),
                Obj(<<Member("_token", Str("x"))>>),
                Obj(<<Member("action_id", Num("1"))>>)}]

\* The context field of a payload.  A button context comes back with the token
\* issued for it under either bot token, as first or as last member.  The
\* context of a button built with a _token key of its own comes back as it
\* was built.  The
\* first button context also comes back with the first code unit of its token
\* replaced (by an ASCII or by a two-byte code unit), with a short string or a
\* number for a token, and without a token; the nested one with its inner
\* value changed.  Or the field is no object at all.
PayloadContexts ==
    UNION {{WithToken(c, StrU(IssuedToken(b, c))) : b \in BotTokens}
            \cup {WithTokenLast(c, StrU(IssuedToken("token-a", c)))} : c \in ButtonContexts}
    \cup {WithToken(FirstButtonContext,
                    StrU(<<Unit(u), HexRun(IssuedToken("token-a", FirstButtonContext)[1].d,
                                           2, HexDigestLen)>>)) : u \in {"0", "U+00E9"}}
    \cup {WithToken(FirstButtonContext, tk) : tk \in {Str("short"), Num("1")}}
    \cup {FirstButtonContext}
    \cup {WithToken(Obj(<<Member("action_id", Str("approve")),
                          Member("item", Obj(<<Member("id", Num("2"))>>))>>),
                    StrU(IssuedToken("token-a", NestedButtonContext)))}
    \cup {BuildButton(DerivedSecret("token-a"), CallbackUrl, btn).value.integration.context :
              btn \in {b \in HandlerButtons : HasKey(b.context, "_token")}}
    \cup {Str("approve"), Num("1"), Num("0"), Lit("null"), Lit("true"), Arr(<<>>)}

PayloadFields(channel) ==
    <<Member("user_id", Str("u1")), Member("channel_id", Str(channel)),
      Member("post_id", Str("p1"))>>
ValidContext == WithToken(FirstButtonContext, StrU(IssuedToken("token-a", FirstButtonContext)))

Bodies ==
    {[json |-> FALSE, value |-> UndefinedValue]}
    \cup {[json |-> TRUE, value |-> v] : v \in {Lit("null"), Num("5"), Str("hi"), Arr(<<>>)}}
    \cup {[json |-> TRUE, value |-> Obj(PayloadFields("ch1"))]}
    \cup {[json |-> TRUE, value |-> Obj(PayloadFields("ch1") \o <<Member("context", c)>>)] :
              c \in PayloadContexts}
    \cup {[json |-> TRUE, value |-> Obj(PayloadFields("ch2") \o <<Member("context", ValidContext)>>)],
          [json |-> TRUE,
           value |-> Obj(<<Member("user_name", Str("alice"))>> \o PayloadFields("ch1")
                         \o <<Member("context", ValidContext)>>)]}

\* A request whose socket is gone has no remote address to offer.
Requests ==
    {r \in [method : Methods, socket : BOOLEAN, remoteAddress : RemoteAddresses, body : Bodies] :
        r.socket \/ r.remoteAddress = Undefined}

---------------------------------------------------------------------------
(* The callback URL registry.                                              *)

\* value?.key
OptionalProperty(value, key) ==
    IF value.t = "undefined" \/ PropertyThrows(value) THEN UndefinedValue
    ELSE GetProperty(value, key)

\* The port of the fallback URL when the configuration names none.
DefaultGatewayPort == "18789"

\* callbackUrls.get(accountId)
getInteractionCallbackUrl(urls, accountId) ==
    IF accountId \in DOMAIN urls THEN urls[accountId] ELSE Undefined

\* A resolver that takes any configured port, number or not.
resolveWithAnyPort(urls, accountId, cfg) ==
    LET cached == getInteractionCallbackUrl(urls, accountId)
        port == OptionalProperty(OptionalProperty(cfg, "gateway"), "port")
    IN  IF cached # Undefined /\ cached # "" THEN cached
        ELSE "http://localhost:"
             \o (IF port.t = "num" THEN port.v
                 ELSE IF port.t = "str" THEN StringText(port.kids)
                 ELSE DefaultGatewayPort)
             \o "/mattermost/interactions/" \o accountId

\* if (cached) return cached: an empty string counts as no registration.
resolveInteractionCallbackUrl(urls, accountId, cfg) ==
    LET cached == getInteractionCallbackUrl(urls, accountId)
        port == OptionalProperty(OptionalProperty(cfg, "gateway"), "port")
    IN  IF cached # Undefined /\ cached # "" THEN cached
        ELSE "http://localhost:"
             \o (IF port.t = "num" THEN port.v ELSE DefaultGatewayPort)
             \o "/mattermost/interactions/" \o accountId

RegistryUrls == {"", "http://cached:1234/path",
                 "http://localhost:18789/mattermost/interactions/default"}
GatewayConfigs ==
    {UndefinedValue, EmptyObject,
     Obj(<<Member("gateway", EmptyObject)>>),
     Obj(<<Member("gateway", Lit("null"))>>),
     Obj(<<Member("gateway", Obj(<<Member("port", Num("9999"))>>))>>),
     Obj(<<Member("gateway", Obj(<<Member("port", Str("9999"))>>))>>)}

setInteractionCallbackUrl(accountId, url) ==
    /\ callbackUrls' = [callbackUrls EXCEPT ![accountId] = url]
    /\ cbQuery' = [fn |-> "set", accountId |-> accountId, url |-> url, cfg |-> UndefinedValue]
    /\ cbResult' = Undefined
    /\ UNCHANGED <<interactionSecret, cdVars, cdBotToken, buttonVars, handlerVars, slackVars, storeVars>>

GetCallbackUrl(accountId) ==
    /\ cbQuery' = [fn |-> "get", accountId |-> accountId, url |-> "", cfg |-> UndefinedValue]
    /\ cbResult' = getInteractionCallbackUrl(callbackUrls, accountId)
    /\ UNCHANGED <<callbackUrls, interactionSecret, cdVars, cdBotToken, buttonVars, handlerVars, slackVars, storeVars>>

ResolveCallbackUrl(accountId, cfg) ==
    /\ cbQuery' = [fn |-> "resolve", accountId |-> accountId, url |-> "", cfg |-> cfg]
    /\ cbResult' = resolveInteractionCallbackUrl(callbackUrls, accountId, cfg)
    /\ UNCHANGED <<callbackUrls, interactionSecret, cdVars, cdBotToken, buttonVars, handlerVars, slackVars, storeVars>>

NextRegistry ==
    \/ \E a \in AccountIds, url \in RegistryUrls : setInteractionCallbackUrl(a, url)
    \/ \E a \in AccountIds : GetCallbackUrl(a)
    \/ \E a \in AccountIds, cfg \in GatewayConfigs : ResolveCallbackUrl(a, cfg)
SpecRegistry == InitCanon /\ [][NextRegistry]_vars

---------------------------------------------------------------------------
(* The Mattermost interaction handler.                                     *)

\* A handler that takes a request without a remote address for a local one.
isLocalhostOrUnknown(r) == r.remoteAddress \in LOCALHOST_ADDRESSES \cup {Undefined}

\* A check that knows the IPv4 and IPv6 loopback but not the mapped one.
isLocalhostUnmapped(r) == r.socket /\ r.remoteAddress \in {"127.0.0.1", "::1"}

isLocalhostRequest(r) ==
    LET addr == IF r.socket THEN r.remoteAddress ELSE Undefined
    IN  IF addr = Undefined \/ addr = "" THEN FALSE
        ELSE addr \in LOCALHOST_ADDRESSES

\* The posts the server may hold under the payload's post id: with or
\* without a message text, with the one attachment buildButtonAttachments
\* makes (all buttons in it) or with a further attachment of its own buttons.
ButtonNode(id) ==
    Obj(<<Member("id", Str(id)), Member("type", Str("button")), Member("name", Str("Click"))>>)
AttachmentNode(text, ids) ==
    Obj(<<Member("text", Str(text)),
          Member("actions", Arr([i \in 1..Len(ids) |-> ButtonNode(ids[i])]))>>)
PostLayouts ==
    { Obj(<<Member("attachments", Arr(<<AttachmentNode("", <<"approve", "deny">>)>>))>>),
      Obj(<<Member("attachments", Arr(<<AttachmentNode("", <<"approve">>),
                                        AttachmentNode("More", <<"snooze">>)>>))>>) }
Posts == [message : {"hello", Undefined}, props : PostLayouts]

\* A text that is not kept.
OriginalMessageDropped(post) == ""

\* originalPost?.message ?? ""
OriginalMessage(post) == IF post.message = Undefined THEN "" ELSE post.message

\* The record of a collaborator's invocation: its arguments and how it ended
\* ("pending" while it is awaited).
Call(fn, args, result) == [fn |-> fn, args |-> args, result |-> result]
Settled(cs, result) == [cs EXCEPT ![Len(cs)].result = result]

\* res.statusCode = ...; res.setHeader(...); res.end(body)
Respond(status, allow, body) ==
    [statusCode |-> status, allow |-> IF allow THEN "POST" ELSE res.allow,
     contentType |-> "application/json", body |-> body, ended |-> res.ended + 1]

\* A gate rejects: log (where the code logs), respond, return.
Reject(status, allow, message, logged) ==
    /\ pc' = "done"
    /\ res' = Respond(status, allow, ErrorBody(message))
    /\ logs' = logs \o logged
    /\ UNCHANGED <<payload, calls>>

\* An exception leaves the handler: its promise rejects, nothing is sent.
Throw ==
    /\ pc' = "threw"
    /\ UNCHANGED <<payload, res, calls, logs>>

\* payload.user_name ?? payload.user_id
UserName(pl) ==
    IF HasKey(pl, "user_name") /\ ~(Get(pl, "user_name").t = "lit" /\ Get(pl, "user_name").v = "null")
    THEN TemplateText(Get(pl, "user_name"))
    ELSE TemplateText(Get(pl, "user_id"))
ChannelId(pl) == TemplateText(Get(pl, "channel_id"))
PostId(pl) == TemplateText(Get(pl, "post_id"))
ActionId(pl) == TemplateText(Get(Get(pl, "context"), "action_id"))

EventLabel(pl) ==
    "Mattermost button click: action=\"" \o ActionId(pl) \o "\" by " \o UserName(pl)
    \o " in channel " \o ChannelId(pl)
\* A fallback key that leaves the account out.
SessionKeyWithoutAccount(accountId, pl) == "agent:main:mattermost:" \o ChannelId(pl)

FallbackSessionKey(accountId, pl) ==
    "agent:main:mattermost:" \o accountId \o ":" \o ChannelId(pl)
ContextKey(pl) == "mattermost:interaction:" \o PostId(pl) \o ":" \o ActionId(pl)

EnqueueCall(pl, sessionKey, enqueued) ==
    Call("enqueueSystemEvent", <<EventLabel(pl), sessionKey, ContextKey(pl)>>, enqueued)
ResolveCall(pl) == Call("resolveSessionKey", <<Get(pl, "channel_id")>>, "pending")
FetchCall(pl) == Call("client.request", <<"/posts/" \o PostId(pl)>>, "pending")
\* Props that put the clicked button back under the confirmation.
UpdatePropsKeepingActions(pl) ==
    Obj(<<Member("attachments", Arr(<<Obj(<<Member("text",
          Str("U+2713 **" \o ActionId(pl) \o "** selected by @" \o UserName(pl))),
          Member("actions", Arr(<<Obj(<<Member("id", Str(ActionId(pl)))>>)>>))>>)>>))>>)

UpdateProps(pl) ==
    Obj(<<Member("attachments", Arr(<<Obj(<<Member("text",
          Str("U+2713 **" \o ActionId(pl) \o "** selected by @" \o UserName(pl)))>>)>>))>>)
\* An update that marks the message text as handled.
UpdateCallMarkingMessage(pl, message) ==
    Call("updateMattermostPost",
         <<PostId(pl), message \o " (handled)", JSONStringify(UpdateProps(pl))>>, "pending")

UpdateCall(pl, message) ==
    Call("updateMattermostPost", <<PostId(pl), message, JSONStringify(UpdateProps(pl))>>, "pending")

\* A dispatch whose exception is not caught: the handler ends there.
EnqueueUncaught(cs, pl, sessionKey, enqueued, logged) ==
    /\ calls' = cs \o <<EnqueueCall(pl, sessionKey, enqueued)>>
                   \o (IF enqueued = "ok" THEN <<FetchCall(pl)>> ELSE <<>>)
    /\ logs' = logs \o logged
    /\ pc' = IF enqueued = "ok" THEN "fetching" ELSE "threw"

\* A handler that starts the post update before it dispatches.
FetchBeforeEnqueue(cs, pl, sessionKey, enqueued, logged) ==
    /\ calls' = cs \o <<FetchCall(pl), EnqueueCall(pl, sessionKey, enqueued)>>
    /\ logs' = logs \o logged
    /\ pc' = "fetching"

\* core.system.enqueueSystemEvent(...) inside the try (its exception is caught
\* and logged), then the post update starts: client.request is called and
\* awaited.  cs is the record of the calls so far.
EnqueueThenFetch(cs, pl, sessionKey, enqueued, logged) ==
    /\ calls' = cs \o <<EnqueueCall(pl, sessionKey, enqueued), FetchCall(pl)>>
    /\ logs' = logs \o logged \o
                (IF enqueued = "ok" THEN <<>>
                 ELSE <<"mattermost interaction: system event dispatch failed: Error: enqueue failed">>)
    /\ pc' = "fetching"

\* A post update whose exception is not caught.
PostUpdateUncaught(cs, pl, err) ==
    /\ calls' = cs
    /\ pc' = "threw"
    /\ UNCHANGED <<res, logs>>

\* A catch that tries the update once more before it gives up.
PostUpdateRetried(cs, pl, err) ==
    IF Len(SelectSeq(cs, LAMBDA c : c.fn = "updateMattermostPost")) < 2
    THEN /\ calls' = cs \o <<UpdateCall(pl, "")>>
         /\ pc' = "updating"
         /\ UNCHANGED <<res, logs>>
    ELSE /\ calls' = cs
         /\ logs' = logs \o <<"mattermost interaction: failed to update post " \o PostId(pl)
                               \o ": " \o err>>
         /\ res' = Respond(200, FALSE, "{}")
         /\ pc' = "done"

\* The catch of the post update, then the response.
PostUpdateFailed(cs, pl, err) ==
    /\ calls' = cs
    /\ logs' = logs \o <<"mattermost interaction: failed to update post " \o PostId(pl)
                          \o ": " \o err>>
    /\ res' = Respond(200, FALSE, "{}")
    /\ pc' = "done"

\* Every gate is passed: log, then dispatch.
Dispatch(pl) ==
    LET logged == <<"mattermost interaction: action=" \o ActionId(pl) \o " user=" \o UserName(pl)
                    \o " post=" \o PostId(pl) \o " channel=" \o ChannelId(pl)>>
    IN
    /\ payload' = pl
    /\ UNCHANGED res
    /\ IF params.hasResolver
       THEN /\ calls' = calls \o <<ResolveCall(pl)>>
            /\ logs' = logs \o logged
            /\ pc' = "resolving"
       ELSE \E enqueued \in {"ok", "throws"} :
                EnqueueThenFetch(calls, pl, FallbackSessionKey(params.accountId, pl),
                                 enqueued, logged)

\* A log line that echoes the token it rejects.
InvalidTokenLogEchoing(token) ==
    <<"mattermost interaction: invalid _token " \o StringText(token.kids)>>

\* log?.("mattermost interaction: invalid _token")
InvalidTokenLog(token) == <<"mattermost interaction: invalid _token">>

\* The handler from `await readInteractionBody(req)` on: the body read
\* resolved (bodyOk) or rejected with `reason`.
AfterBody(bodyOk, raw, reason) ==
    LET parsed == JSONParse(raw)
        pl == parsed.value
        context == GetProperty(pl, "context")
        token == GetProperty(context, "_token")
        actionId == GetProperty(context, "action_id")
    IN
    IF ~bodyOk
    THEN Reject(400, FALSE, "Invalid request body",
                <<"mattermost interaction: failed to parse body: " \o reason>>)
    ELSE IF parsed.threw
    THEN Reject(400, FALSE, "Invalid request body",
                <<"mattermost interaction: failed to parse body: SyntaxError">>)
    ELSE IF PropertyThrows(pl) THEN Throw
    ELSE IF IsFalsy(context) THEN Reject(400, FALSE, "Missing context", <<>>)
    ELSE IF ~TypeofString(token)
    THEN Reject(403, FALSE, "Missing token", <<"mattermost interaction: missing _token in context">>)
    ELSE LET verdict == verifyInteractionToken(interactionSecret,
                                               RestWithout(context, "_token"), token.kids)
         IN
         IF verdict = "throws" THEN Throw
         ELSE IF verdict = "false"
         THEN Reject(403, FALSE, "Invalid token", InvalidTokenLog(token))
         ELSE IF ~TypeofString(actionId)
         THEN Reject(400, FALSE, "Missing action_id in context", <<>>)
         ELSE Dispatch(pl)

\* The handler is invoked: method gate, origin gate, then
\* readInteractionBody(req) arms its timer and registers its listeners.
Handle(r) ==
    /\ pc = "idle"
    /\ req' = r
    /\ IF r.method # "POST"
       THEN Reject(405, TRUE, "Method Not Allowed", <<>>) /\ UNCHANGED rd
       ELSE IF ~isLocalhostRequest(r)
       THEN /\ Reject(403, FALSE, "Forbidden",
                      <<"mattermost interaction: rejected non-localhost request from "
                        \o r.remoteAddress>>)
            /\ UNCHANGED rd
       ELSE /\ rd' = [RdIdle EXCEPT !.timer = "pending", !.promise = "pending"]
            /\ pc' = "reading"
            /\ UNCHANGED <<payload, res, calls, logs>>
    /\ UNCHANGED <<interactionSecret, codecVars, slackVars, storeVars, params>>

Listening == rd.promise # "none" /\ rd.stream = "open"
ClearTimeout(timer) == IF timer = "pending" THEN "cleared" ELSE timer
\* An event that settles the read resumes the handler; a later one finds the
\* promise settled and changes nothing of the handler.
Resume(bodyOk, raw, reason) ==
    IF rd.promise = "pending" THEN AfterBody(bodyOk, raw, reason)
    ELSE UNCHANGED <<pc, payload, res, calls, logs>>
\* A promise whose outcome the latest event decides.
SettleOverriding(outcome) == outcome

\* resolve(...) and reject(...) of the read's promise: the first one decides.
Settle(outcome) == IF rd.promise = "pending" THEN outcome ELSE rd.promise

\* Buffer.concat(chunks).toString("utf8"): no chunk, no text.
BodyText(chunks, body) == IF chunks = <<>> THEN [json |-> FALSE, value |-> UndefinedValue] ELSE body

\* A data listener without the size limit.
OnDataUnbounded(len) ==
    /\ Listening
    /\ rd.events < MaxChunks
    /\ rd' = [rd EXCEPT !.totalBytes = @ + len, !.events = @ + 1, !.chunks = Append(@, len)]
    /\ UNCHANGED <<pc, payload, res, calls, logs>>
    /\ UNCHANGED <<interactionSecret, codecVars, slackVars, storeVars, params, req>>

\* A data listener that refuses a body as soon as it reaches the limit.
OnDataRejectingAtLimit(len) ==
    /\ Listening
    /\ rd.events < MaxChunks
    /\ LET total == rd.totalBytes + len IN
       IF total >= INTERACTION_MAX_BODY_BYTES
       THEN /\ rd' = [rd EXCEPT !.totalBytes = total, !.events = @ + 1, !.destroyed = TRUE,
                                !.timer = ClearTimeout(@), !.promise = Settle("rejected")]
            /\ Resume(FALSE, req.body, "Error: Request body too large")
       ELSE /\ rd' = [rd EXCEPT !.totalBytes = total, !.events = @ + 1,
                                !.chunks = Append(@, len)]
            /\ UNCHANGED <<pc, payload, res, calls, logs>>
    /\ UNCHANGED <<interactionSecret, codecVars, slackVars, storeVars, params, req>>

\* req.on("data")
OnData(len) ==
    /\ Listening
    /\ rd.events < MaxChunks
    /\ LET total == rd.totalBytes + len IN
       IF total > INTERACTION_MAX_BODY_BYTES
       THEN /\ rd' = [rd EXCEPT !.totalBytes = total, !.events = @ + 1, !.destroyed = TRUE,
                                !.timer = ClearTimeout(@), !.promise = Settle("rejected")]
            /\ Resume(FALSE, req.body, "Error: Request body too large")
       ELSE /\ rd' = [rd EXCEPT !.totalBytes = total, !.events = @ + 1,
                                !.chunks = Append(@, len)]
            /\ UNCHANGED <<pc, payload, res, calls, logs>>
    /\ UNCHANGED <<interactionSecret, codecVars, slackVars, storeVars, params, req>>

\* An end listener whose verification creates the secret when none is set.
OnEndGeneratingSecret ==
    /\ Listening
    /\ rd' = [rd EXCEPT !.stream = "ended", !.timer = ClearTimeout(@),
                        !.promise = Settle("resolved")]
    /\ Resume(TRUE, BodyText(rd.chunks, req.body), "")
    /\ interactionSecret' = IF interactionSecret = Undefined THEN DerivedSecret("random")
                            ELSE interactionSecret
    /\ UNCHANGED <<codecVars, slackVars, storeVars, params, req>>

\* req.on("end")
OnEnd ==
    /\ Listening
    /\ rd' = [rd EXCEPT !.stream = "ended", !.timer = ClearTimeout(@),
                        !.promise = Settle("resolved")]
    /\ Resume(TRUE, BodyText(rd.chunks, req.body), "")
    /\ UNCHANGED <<interactionSecret, codecVars, slackVars, storeVars, params, req>>

\* req.on("error")
OnError ==
    /\ Listening
    /\ rd' = [rd EXCEPT !.stream = "errored", !.timer = ClearTimeout(@),
                        !.promise = Settle("rejected")]
    /\ Resume(FALSE, req.body, "Error: aborted")
    /\ UNCHANGED <<interactionSecret, codecVars, slackVars, storeVars, params, req>>

\* A timer that destroys the request and leaves the read pending.
OnTimeoutDestroyOnly ==
    /\ rd.timer = "pending"
    /\ rd' = [rd EXCEPT !.timer = "fired", !.destroyed = TRUE]
    /\ UNCHANGED <<pc, payload, res, calls, logs>>
    /\ UNCHANGED <<interactionSecret, codecVars, slackVars, storeVars, params, req>>

\* The setTimeout callback of readInteractionBody.
OnTimeout ==
    /\ rd.timer = "pending"
    /\ rd' = [rd EXCEPT !.timer = "fired", !.destroyed = TRUE, !.promise = Settle("rejected")]
    /\ Resume(FALSE, req.body, "Error: Request body read timeout")
    /\ UNCHANGED <<interactionSecret, codecVars, slackVars, storeVars, params, req>>

\* `await params.resolveSessionKey(payload.channel_id)` settles: with a
\* session key, and the event is enqueued; or with an error, which the catch
\* of the dispatch logs, and nothing is enqueued.
ResolverSettles ==
    /\ pc = "resolving"
    /\ \/ \E sessionKey \in ResolvedSessionKeys, enqueued \in {"ok", "throws"} :
              EnqueueThenFetch(Settled(calls, sessionKey), payload, sessionKey, enqueued, <<>>)
       \/ /\ calls' = Settled(calls, "rejected") \o <<FetchCall(payload)>>
          /\ logs' = logs \o
                <<"mattermost interaction: system event dispatch failed: Error: no session">>
          /\ pc' = "fetching"
    /\ UNCHANGED <<interactionSecret, codecVars, slackVars, storeVars, params, req, rd, payload, res>>

\* `await client.request(...)` settles: with one of the given posts (whose
\* message may be absent), or with an error.
FetchSettlesFrom(posts) ==
    /\ pc = "fetching"
    /\ \/ \E post \in posts :
            /\ calls' = Settled(calls, "ok") \o <<UpdateCall(payload, OriginalMessage(post))>>
            /\ pc' = "updating"
            /\ UNCHANGED <<res, logs>>
       \/ PostUpdateFailed(Settled(calls, "rejected"), payload, "Error: fetch failed")
    /\ UNCHANGED <<interactionSecret, codecVars, slackVars, storeVars, params, req, rd, payload>>
\* The server may hold any post.
FetchSettles == FetchSettlesFrom(Posts)
\* The server holds the post mmPost.
FetchStored == FetchSettlesFrom({mmPost})

\* The post the server keeps once an update has succeeded: the message and
\* the props it was sent.
StoredPost(call, pl) == [message |-> call.args[2], props |-> UpdateProps(pl)]

\* `await updateMattermostPost(...)` settles; tracked says whether the
\* server's post is followed.
UpdateSettlesTracking(tracked) ==
    /\ pc = "updating"
    /\ \/ /\ calls' = Settled(calls, "ok")
          /\ res' = Respond(200, FALSE, "{}")
          /\ pc' = "done"
          /\ mmPost' = IF tracked THEN StoredPost(calls[Len(calls)], payload) ELSE mmPost
          /\ UNCHANGED logs
       \/ /\ PostUpdateFailed(Settled(calls, "rejected"), payload, "Error: update failed")
          /\ UNCHANGED mmPost
    /\ UNCHANGED <<interactionSecret, codecVars, slackVars, mmFirst, params, req, rd, payload>>
UpdateSettles == UpdateSettlesTracking(FALSE)
UpdateSettlesStored == UpdateSettlesTracking(TRUE)

\* The platform delivers the callback once more: the first delivery is over
\* and is remembered, the handler is invoked afresh.
Redeliver ==
    /\ pc = "done"
    /\ payload # UndefinedValue
    /\ mmFirst = NoDelivery
    /\ mmFirst' = [req |-> req, res |-> res, calls |-> calls, post |-> mmPost]
    /\ pc' = "idle"
    /\ req' = NoRequest
    /\ rd' = RdIdle
    /\ payload' = UndefinedValue
    /\ res' = ResInit
    /\ calls' = <<>>
    /\ logs' = <<>>
    /\ UNCHANGED <<interactionSecret, codecVars, slackVars, mmPost, params>>

\* The invocation is over; the next one gets a fresh request and response.
HandlerReset ==
    /\ pc \in {"done", "threw"}
    /\ pc' = "idle"
    /\ req' = NoRequest
    /\ rd' = RdIdle
    /\ payload' = UndefinedValue
    /\ res' = ResInit
    /\ calls' = <<>>
    /\ logs' = <<>>
    /\ UNCHANGED <<interactionSecret, codecVars, slackVars, storeVars, params>>

Init == interactionSecret = Undefined /\ CodecInit /\ SlackIdle /\ StoreIdle /\ HandlerInit
Next ==
    \/ \E b \in BotTokens : setInteractionSecret(b)
    \/ \E r \in Requests : Handle(r)
    \/ \E len \in ChunkSizes : OnData(len)
    \/ OnEnd
    \/ OnError
    \/ OnTimeout
    \/ ResolverSettles
    \/ FetchSettles
    \/ UpdateSettles
    \/ HandlerReset
Spec == Init /\ [][Next]_vars

\* A callback for a button of a stored post is delivered, and delivered again.
ValidBodies ==
    {b \in Bodies : b.json /\ b.value.t = "obj"
                    /\ \E i \in 1..Len(b.value.kids) : b.value.kids[i] = Member("context", ValidContext)}
RedeliveryRequests ==
    {r \in Requests : r.method = "POST" /\ r.remoteAddress = "127.0.0.1" /\ r.body \in ValidBodies}
InitRedelivery ==
    /\ interactionSecret = Undefined
    /\ CodecInit
    /\ SlackIdle
    /\ HandlerInit
    /\ mmPost \in Posts
    /\ mmFirst = NoDelivery
NextRedelivery ==
    \/ setInteractionSecret("token-a")
    \/ \E r \in RedeliveryRequests : (mmFirst = NoDelivery \/ r = mmFirst.req) /\ Handle(r)
    \/ \E len \in ChunkSizes : OnData(len)
    \/ OnEnd
    \/ ResolverSettles
    \/ FetchStored
    \/ UpdateSettlesStored
    \/ Redeliver
SpecRedelivery == InitRedelivery /\ [][NextRedelivery]_vars

\* The timer set by readInteractionBody fires unless it is cleared first.
SpecTimed == Spec /\ WF_vars(OnTimeout)

\* The gateway serves callbacks while an account's callback URL is registered.
RegisteredUrl == "http://cached:1234/path"
NextShared ==
    \/ Next
    \/ setInteractionCallbackUrl(params.accountId, RegisteredUrl)
SpecShared == Init /\ [][NextShared]_vars

\* The gateway builds buttons and serves callbacks, one call at a time.
NextEmissions ==
    \/ bbPhase = "idle" /\ Next
    \/ pc = "idle" /\ \E p \in ButtonParams : BuildButtons(p)
    \/ BbReset
SpecEmissions == Init /\ [][NextEmissions]_vars

---------------------------------------------------------------------------
(* The Slack interaction handler.  A block is [type, block_id, elements]; *)
(* an element is [type, action_id, text].  An action id is the sequence of *)
(* the pieces of its text, the bulk marker "_all_" being a piece of its    *)
(* own, so that includes("_all_") is a search among the pieces.            *)

OPENCLAW_ACTION_PREFIX == "openclaw:"
BulkMarker == "_all_"

ActionIdText(actionId) == ConcatAll(actionId)
\* action_id.includes("_all_")
Includes(actionId, marker) == \E i \in 1..Len(actionId) : actionId[i] = marker
\* new RegExp(`^${OPENCLAW_ACTION_PREFIX}`).test(action_id)
MatchesPrefix(actionId) == actionId # <<>> /\ Head(actionId) = OPENCLAW_ACTION_PREFIX

Button(actionId, text, value) ==
    [type |-> "button", action_id |-> actionId, text |-> text, value |-> value]
Block(type, blockId, elements) == [type |-> type, block_id |-> blockId, elements |-> elements]

\* { type: "context", elements: [{ type: "mrkdwn", text: `✓ *${buttonText}* selected` }] }
Confirmation(buttonText) ==
    Block("context", Undefined,
          <<[type |-> "mrkdwn", action_id |-> <<>>,
             text |-> "U+2713 *" \o buttonText \o "* selected", value |-> Undefined]>>)

\* b.elements?.every((el) => el.action_id?.includes("_all_"))
IsBulk(b) == \A i \in 1..Len(b.elements) : Includes(b.elements[i].action_id, BulkMarker)

\* A map that takes the first control out of a row of several and leaves the
\* row interactive.
ReplaceClickedKeepingSiblings(blocks, blockId, buttonText) ==
    [i \in 1..Len(blocks) |->
        IF blocks[i].type = "actions" /\ blocks[i].block_id = blockId
        THEN IF Len(blocks[i].elements) > 1
             THEN [blocks[i] EXCEPT !.elements = Tail(@)]
             ELSE Confirmation(buttonText)
        ELSE blocks[i]]

\* originalBlocks.map(...): every actions block with the clicked block id
\* becomes a confirmation.
ReplaceClicked(blocks, blockId, buttonText) ==
    [i \in 1..Len(blocks) |->
        IF blocks[i].type = "actions" /\ blocks[i].block_id = blockId
        THEN Confirmation(buttonText)
        ELSE blocks[i]]

RemainingActionBlocks(blocks) ==
    SelectSeq(blocks, LAMBDA b : b.type = "actions" /\ ~IsBulk(b))

\* A filter that drops every divider along with the bulk rows.
KeepsBlockDroppingDividers(blocks, i) ==
    LET b == blocks[i]
    IN  IF b.type = "actions" /\ IsBulk(b) THEN FALSE
        ELSE b.type # "divider"

\* A filter that keeps only the kinds of block it knows.
KeepsBlockKnownKindsOnly(blocks, i) ==
    LET b == blocks[i]
    IN  IF b.type = "actions" /\ IsBulk(b) THEN FALSE
        ELSE IF b.type = "divider"
                /\ i + 1 <= Len(blocks)
                /\ blocks[i + 1].type = "actions"
                /\ IsBulk(blocks[i + 1])
        THEN FALSE
        ELSE b.type \in {"actions", "divider", "context"}

\* updatedBlocks.filter((block, i) => ...): position i of blocks is kept.
KeepsBlock(blocks, i) ==
    LET b == blocks[i]
    IN  IF b.type = "actions" /\ IsBulk(b) THEN FALSE
        ELSE IF b.type = "divider"
                /\ i + 1 <= Len(blocks)
                /\ blocks[i + 1].type = "actions"
                /\ IsBulk(blocks[i + 1])
        THEN FALSE
        ELSE TRUE

RECURSIVE FilterKept(_, _)
FilterKept(blocks, i) ==
    IF i > Len(blocks) THEN <<>>
    ELSE (IF KeepsBlock(blocks, i) THEN <<blocks[i]>> ELSE <<>>) \o FilterKept(blocks, i + 1)

\* A transformer that looks for remaining rows in the layout it was given,
\* not in the one it has just rewritten.
UpdatedBlocksCountingOriginal(blocks, blockId, buttonText) ==
    LET updatedBlocks == ReplaceClicked(blocks, blockId, buttonText)
    IN  IF Len(RemainingActionBlocks(blocks)) = 0
        THEN FilterKept(updatedBlocks, 1)
        ELSE updatedBlocks

\* A transformer that removes the bulk blocks whatever remains.
UpdatedBlocksAlwaysPruned(blocks, blockId, buttonText) ==
    FilterKept(ReplaceClicked(blocks, blockId, buttonText), 1)

\* The block transformation of the handler: the layout written back.
UpdatedBlocks(blocks, blockId, buttonText) ==
    LET updatedBlocks == ReplaceClicked(blocks, blockId, buttonText)
    IN  IF Len(RemainingActionBlocks(updatedBlocks)) = 0
        THEN FilterKept(updatedBlocks, 1)
        ELSE updatedBlocks

\* The layouts of the model: rows of individual buttons, a row of bulk
\* buttons, a row mixing both, dividers and sections.
MaxBlocks == 3
IndividualA == Block("actions", "a", <<Button(<<"openclaw:", "approve_1">>, "Approve", "1")>>)
IndividualB == Block("actions", "b", <<Button(<<"openclaw:", "approve_2">>, Undefined, Undefined)>>)
BulkRow ==
    Block("actions", "bulk",
          <<Button(<<"openclaw:", "approve", "_all_", "items">>, "Approve all", "all"),
            Button(<<"openclaw:", "deny", "_all_", "items">>, "Deny all", "none")>>)
MixedRow ==
    Block("actions", "mixed",
          <<Button(<<"openclaw:", "approve", "_all_", "items">>, "Approve all", "all"),
            Button(<<"openclaw:", "skip">>, "Skip", Undefined)>>)
Divider == Block("divider", Undefined, <<>>)
Section == Block("section", "s", <<>>)
BlockKinds == {IndividualA, IndividualB, BulkRow, MixedRow, Divider, Section}
ActionBlockIds == {"a", "b", "bulk", "mixed"}
\* The platform accepts a layout only if its block ids are distinct.
SlackLayouts ==
    {l \in UNION {[1..n -> BlockKinds] : n \in 0..MaxBlocks} :
        \A i, j \in 1..Len(l) :
            (i # j /\ l[i].type = "actions" /\ l[j].type = "actions") => l[i].block_id # l[j].block_id}

SlackCall(fn, args, blocks, result) == [fn |-> fn, args |-> args, blocks |-> blocks, result |-> result]
SlackChannel == "C1"
SlackTs == "1700000000.000100"

\* ctx.resolveSlackSystemEventSessionKey({ channelId, channelType: "channel" })
SlackSessionKey(channelId) == "session(" \o channelId \o ",channel)"
\* ["slack:interaction", channelId, messageTs, actionId].filter(Boolean).join(":")
SlackContextKey(a, b) ==
    "slack:interaction"
    \o (IF b.channel = Undefined THEN "" ELSE ":" \o b.channel)
    \o (IF b.ts = Undefined THEN "" ELSE ":" \o b.ts)
    \o (IF a.action_id = <<>> THEN "" ELSE ":" \o ActionIdText(a.action_id))
SlackEventLabel(a) ==
    "Slack button clicked: actionId=" \o ActionIdText(a.action_id)
    \o " value=" \o (IF a.value = Undefined THEN "none" ELSE a.value)
    \o " user=U1"
SlackLogLine(a, b) ==
    "slack:interaction action=" \o ActionIdText(a.action_id) \o " user=U1 channel=" \o b.channel
\* action.text?.text ?? actionId
ButtonText(a) == IF a.text = Undefined THEN ActionIdText(a.action_id) ELSE a.text

\* A button of the stored message is clicked: the platform calls the
\* handler with the action and, for a click made in a message, the channel
\* and the message as they are at that moment; the handler awaits ack().
SlackClick(h, i, j, inMessage) ==
    /\ slInv[h].pc = "idle"
    /\ i \in 1..Len(slMessage)
    /\ slMessage[i].type = "actions"
    /\ j \in 1..Len(slMessage[i].elements)
    /\ MatchesPrefix(slMessage[i].elements[j].action_id)
    /\ LET el == slMessage[i].elements[j]
           a == [action_id |-> el.action_id, block_id |-> slMessage[i].block_id,
                 text |-> el.text, value |-> el.value]
           b == IF inMessage
                THEN [channel |-> SlackChannel, ts |-> SlackTs, hasMessage |-> TRUE,
                      blocks |-> slMessage]
                ELSE NoBody
       IN  slInv' = [slInv EXCEPT ![h] = [pc |-> "acking", action |-> a, body |-> b,
                                          calls |-> <<SlackCall("ack", <<>>, <<>>, "pending")>>]]
    /\ UNCHANGED <<slMessage, interactionSecret, codecVars, handlerVars, storeVars>>

\* A handler that enqueues the event a second time.
SlackAfterAckEnqueueTwice(inv, enqueued) ==
    LET a == inv.action
        b == inv.body
        sessionKey == SlackSessionKey(b.channel)
        enqueue == SlackCall("enqueueSystemEvent",
                             <<SlackEventLabel(a), sessionKey, SlackContextKey(a, b)>>, <<>>, enqueued)
        before == Settled(inv.calls, "ok")
                  \o <<SlackCall("log", <<SlackLogLine(a, b)>>, <<>>, "ok"),
                       SlackCall("resolveSlackSystemEventSessionKey", <<b.channel, "channel">>,
                                 <<>>, sessionKey),
                       enqueue, enqueue>>
    IN  IF enqueued = "throws" THEN [inv EXCEPT !.pc = "threw", !.calls = before]
        ELSE IF b.channel # Undefined /\ b.ts # Undefined /\ b.hasMessage
        THEN [inv EXCEPT !.pc = "updating",
                         !.calls = before \o
                             <<SlackCall("chat.update", <<b.channel, b.ts>>,
                                         UpdatedBlocks(b.blocks, a.block_id, ButtonText(a)),
                                         "pending")>>]
        ELSE [inv EXCEPT !.pc = "done", !.calls = before]

\* After ack(): log, resolve the session key, enqueue the system event and,
\* for a click made in a message, send the updated layout.
SlackAfterAck(inv, enqueued) ==
    LET a == inv.action
        b == inv.body
        sessionKey == SlackSessionKey(b.channel)
        before == Settled(inv.calls, "ok")
                  \o <<SlackCall("log", <<SlackLogLine(a, b)>>, <<>>, "ok"),
                       SlackCall("resolveSlackSystemEventSessionKey", <<b.channel, "channel">>,
                                 <<>>, sessionKey),
                       SlackCall("enqueueSystemEvent",
                                 <<SlackEventLabel(a), sessionKey, SlackContextKey(a, b)>>,
                                 <<>>, enqueued)>>
    IN  IF enqueued = "throws" THEN [inv EXCEPT !.pc = "threw", !.calls = before]
        ELSE IF b.channel # Undefined /\ b.ts # Undefined /\ b.hasMessage
        THEN [inv EXCEPT !.pc = "updating",
                         !.calls = before \o
                             <<SlackCall("chat.update", <<b.channel, b.ts>>,
                                         UpdatedBlocks(b.blocks, a.block_id, ButtonText(a)),
                                         "pending")>>]
        ELSE [inv EXCEPT !.pc = "done", !.calls = before]

\* ack() settles: a rejection ends the handler, nothing else is done.
SlackAckSettles(h) ==
    /\ slInv[h].pc = "acking"
    /\ \/ slInv' = [slInv EXCEPT ![h] = [@ EXCEPT !.pc = "threw",
                                                  !.calls = Settled(@, "rejected")]]
       \/ \E enqueued \in {"ok", "throws"} :
              slInv' = [slInv EXCEPT ![h] = SlackAfterAck(@, enqueued)]
    /\ UNCHANGED <<slMessage, interactionSecret, codecVars, handlerVars, storeVars>>

\* chat.update settles: the platform stores the blocks it was sent, or the
\* call fails and the handler swallows the failure.
SlackUpdateSettles(h) ==
    /\ slInv[h].pc = "updating"
    /\ LET cs == slInv[h].calls
       IN  \/ /\ slMessage' = cs[Len(cs)].blocks
              /\ slInv' = [slInv EXCEPT ![h] = [@ EXCEPT !.pc = "done", !.calls = Settled(cs, "ok")]]
           \/ /\ slMessage' = slMessage
              /\ slInv' = [slInv EXCEPT ![h] = [@ EXCEPT !.pc = "done",
                                                        !.calls = Settled(cs, "rejected")]]
    /\ UNCHANGED <<interactionSecret, codecVars, handlerVars, storeVars>>

SlackReset(h) ==
    /\ slInv[h].pc \in {"done", "threw"}
    /\ slInv' = [slInv EXCEPT ![h] = NoInvocation]
    /\ UNCHANGED <<slMessage, interactionSecret, codecVars, handlerVars, storeVars>>

InitSlack ==
    /\ interactionSecret = Undefined
    /\ CodecInit
    /\ StoreIdle
    /\ params = [accountId |-> "default", hasResolver |-> FALSE]
    /\ HandlerIdle
    /\ slMessage \in SlackLayouts
    /\ slInv = [h \in SlackHandlers |-> NoInvocation]
\* One click after another on a message of any layout.
NextSlack ==
    \/ \E i \in 1..MaxBlocks, j \in 1..2, inMessage \in BOOLEAN : SlackClick(1, i, j, inMessage)
    \/ SlackAckSettles(1)
    \/ SlackUpdateSettles(1)
    \/ SlackReset(1)
SpecSlack == InitSlack /\ [][NextSlack]_vars

\* Two clicks on one message, handled concurrently.
ConcurrentLayouts ==
    {l \in SlackLayouts : \A i \in 1..Len(l) : l[i] \in {IndividualA, IndividualB, BulkRow, Divider}}
InitSlackConcurrent == InitSlack /\ slMessage \in ConcurrentLayouts
NextSlackConcurrent ==
    \/ \E h \in SlackHandlers, i \in 1..MaxBlocks, j \in 1..2 : SlackClick(h, i, j, TRUE)
    \/ \E h \in SlackHandlers : SlackAckSettles(h)
    \/ \E h \in SlackHandlers : SlackUpdateSettles(h)
SpecSlackConcurrent == InitSlackConcurrent /\ [][NextSlackConcurrent]_vars

---------------------------------------------------------------------------
(* Mattermost handler: claims.                                             *)

CallsTo(fn) == SelectSeq(calls, LAMBDA c : c.fn = fn)
\* The gates are behind: the handler holds the payload it acts on.
PastGates == payload # UndefinedValue
Finished == pc \in {"done", "threw"}

\* The gate that decides a request, read off the request itself: the status
\* of the first failing gate in the order method, origin, body/JSON, context,
\* token, action id, or "pass".  promise and chunks are the outcome of the
\* body read, secret the secret at the time of the decision.
FirstFailingGate(r, promise, chunks, secret) ==
    LET value == r.body.value
        context == GetProperty(value, "context")
        token == GetProperty(context, "_token")
        issued == HmacHex(secret, TokenPayload(RestWithout(context, "_token")))
    IN
    IF r.method # "POST" THEN "405"
    ELSE IF r.remoteAddress \notin LOCALHOST_ADDRESSES THEN "403"
    ELSE IF promise # "resolved" \/ chunks = <<>> \/ ~r.body.json THEN "400"
    ELSE IF ~HasKey(value, "context") \/ IsFalsy(context) THEN "400"
    ELSE IF token.t # "str" THEN "403"
    ELSE IF StringLength(token.kids) # HexDigestLen THEN "403"
    ELSE IF CodeUnits(token.kids) # CodeUnits(issued) THEN "403"
    ELSE IF GetProperty(context, "action_id").t # "str" THEN "400"
    ELSE "pass"

RejectionMessages ==
    {"Method Not Allowed", "Forbidden", "Invalid request body", "Missing context",
     "Missing token", "Invalid token", "Missing action_id in context"}

\* C1: the session resolver, enqueueSystemEvent, the fetch of the post and
\* updateMattermostPost are called only for a request that passed every gate
\* (POST, loopback address, body read completely and parsed, context present,
\* _token a string that is the token of the context without _token under the
\* secret of that moment, action_id a string): the first call of an invocation
\* is made in the step that takes the last gate, every later call follows an
\* earlier one, and a rejected request ends with no call made.
C1_CollaboratorsOnlyPastGates ==
    [][/\ Len(calls') > Len(calls) =>
            IF pc = "reading"
            THEN calls = <<>> /\ FirstFailingGate(req, rd'.promise, rd'.chunks, interactionSecret) = "pass"
            ELSE pc \in {"resolving", "fetching"} /\ calls # <<>>
       /\ (pc' = "done" /\ res'.statusCode # 200) => calls' = <<>>]_vars
C1_Witness ==
    /\ pc = "done"
    /\ Len(calls) = 4
    /\ [i \in 1..4 |-> calls[i].fn] =
          <<"resolveSessionKey", "enqueueSystemEvent", "client.request", "updateMattermostPost">>

\* C2: a rejection is decided by the first failing gate in the order method,
\* origin, body/JSON, context, token, action id: 405 with Allow: POST for a
\* method other than POST, 403 for a non-loopback address, 400 for a body that
\* fails to read or is no JSON, 400 for every JSON body without a context
\* field, 403 for a token that is absent, of wrong length or not the digest,
\* 400 for a verified context without a string action_id; and every rejection
\* body is JSON of the form {"error": message}.  (With the secret set.)
C2_RejectionByFirstFailingGate ==
    [][(pc \in {"idle", "reading"} /\ pc' # pc /\ interactionSecret # Undefined) =>
          LET gate == FirstFailingGate(req', rd'.promise, rd'.chunks, interactionSecret) IN
          IF gate = "pass" THEN pc' \in {"resolving", "fetching"}
          ELSE IF pc' = "reading" THEN gate \notin {"405", "403"}
          ELSE /\ pc' = "done"
               /\ res'.ended = 1
               /\ ToString(res'.statusCode) = gate
               /\ res'.allow = (IF gate = "405" THEN "POST" ELSE "")
               /\ \E m \in RejectionMessages : res'.body = "{\"error\":\"" \o m \o "\"}"]_vars

\* C3: a request that passed the action-id gate is answered with status 200
\* and a JSON body, once, whatever the session resolver, enqueueSystemEvent,
\* the fetch of the post and the post update did.
C3_PastGatesAlways200 ==
    (PastGates /\ Finished) =>
        /\ pc = "done"
        /\ res.statusCode = 200
        /\ res.contentType = "application/json"
        /\ res.body = "{}"
        /\ res.ended = 1
C3_Witness ==
    /\ pc = "done"
    /\ res.statusCode = 200
    /\ Len(calls) = 3
    /\ calls[1].fn = "resolveSessionKey" /\ calls[1].result \in ResolvedSessionKeys
    /\ calls[2].fn = "enqueueSystemEvent" /\ calls[2].result = "throws"
    /\ calls[3].fn = "client.request" /\ calls[3].result = "rejected"

ResolverFailed ==
    CallsTo("resolveSessionKey") # <<>> /\ CallsTo("resolveSessionKey")[1].result = "rejected"

\* C4: when a session resolver is supplied and fails for a request that passed
\* all gates, enqueueSystemEvent is still called exactly once, with the
\* fallback key built from the account and the channel, and the response is
\* 200.
C4_ResolverFailureFallsBack ==
    ResolverFailed =>
        /\ Len(CallsTo("enqueueSystemEvent")) = 1
        /\ CallsTo("enqueueSystemEvent")[1].args[2] =
              "agent:main:mattermost:" \o params.accountId \o ":" \o ChannelId(payload)
        /\ Finished => (pc = "done" /\ res.statusCode = 200)

\* What C5 says of the keys: the sessionKey handed to enqueueSystemEvent is
\* the resolver's result when a resolver is supplied (and succeeded), the
\* account/channel key when none is; the contextKey is built from the post id
\* and the action id.
KeysAsResolved ==
    LET enq == CallsTo("enqueueSystemEvent")
        rs == CallsTo("resolveSessionKey")
    IN \A i \in 1..Len(enq) :
          /\ params.hasResolver =>
                (rs # <<>> /\ rs[1].result \in ResolvedSessionKeys /\ enq[i].args[2] = rs[1].result)
          /\ ~params.hasResolver =>
                enq[i].args[2] = "agent:main:mattermost:" \o params.accountId \o ":"
                                 \o StringText(GetProperty(payload, "channel_id").kids)
          /\ enq[i].args[3] = "mattermost:interaction:"
                              \o StringText(GetProperty(payload, "post_id").kids) \o ":"
                              \o StringText(GetProperty(GetProperty(payload, "context"), "action_id").kids)

C6_DispatchAndUpdateIndependent ==
    (PastGates /\ pc \in {"fetching", "updating", "done", "threw"}) =>
        /\ pc # "threw"
        /\ Len(CallsTo("client.request")) = 1
        /\ Len(CallsTo("enqueueSystemEvent")) <= 1
        /\ Len(CallsTo("updateMattermostPost")) <= 1
        /\ \A i, j \in 1..Len(calls) :
              (calls[i].fn = "enqueueSystemEvent"
               /\ calls[j].fn \in {"client.request", "updateMattermostPost"}) => i < j
        /\ pc = "done" => res.statusCode = 200
C6_Witness ==
    /\ pc = "done"
    /\ ~params.hasResolver
    /\ Len(calls) = 3
    /\ calls[1].fn = "enqueueSystemEvent" /\ calls[1].result = "throws"
    /\ calls[2].fn = "client.request" /\ calls[2].result = "ok"
    /\ calls[3].fn = "updateMattermostPost" /\ calls[3].result = "rejected"

---------------------------------------------------------------------------
(* Button builder and secret: claims.                                      *)

BuiltActions == bbResult[1].actions
BuiltContext(i) == BuiltActions[i].integration.context

\* C11: for every button passed to buildButtonAttachments, whatever its extra
\* context (one holding a _token key included), the token is computed over
\* the context without _token: the produced integration context with _token
\* removed verifies against the produced _token.
C11_ButtonTokenCoversContext ==
    bbPhase = "built" =>
        \A i \in 1..Len(BuiltActions) :
            verifyInteractionToken(bbSecret, RestWithout(BuiltContext(i), "_token"),
                                   GetProperty(BuiltContext(i), "_token").kids) = "true"

\* C13: every produced button carries in its integration context an action_id
\* equal to the button's id and every key of the button's extra context, and
\* has the given callback URL, type "button" and the given style; the result
\* is a single attachment holding all buttons in input order.  For every
\* extra context, one with an action_id key included.
C13_ButtonCarriesIdAndContext ==
    bbPhase = "built" =>
        /\ Len(bbResult) = 1
        /\ Len(BuiltActions) = Len(bbParams.buttons)
        /\ \A i \in 1..Len(BuiltActions) :
              LET btn == bbParams.buttons[i] IN
              /\ BuiltActions[i].id = btn.id
              /\ BuiltActions[i].name = btn.name
              /\ BuiltActions[i].type = "button"
              /\ BuiltActions[i].style = btn.style
              /\ BuiltActions[i].integration.url = bbParams.callbackUrl
              /\ GetProperty(BuiltContext(i), "action_id") = Member("action_id", Str(btn.id))
              /\ \A j \in 1..Len(btn.context.kids) : HasKey(BuiltContext(i), btn.context.kids[j].k)

\* The integration contexts buildButtonAttachments produces under a secret,
\* with their keys in any order.
ProducedButtonContexts(secret) ==
    UNION {KeyPermutations(BuildButton(secret, CallbackUrl, btn).value.integration.context) :
              btn \in HandlerButtons}

\* The context of the request's payload, as a value of its own.
RequestContext == Member("", GetProperty(req.body.value, "context"))

\* C12: a button produced by buildButtonAttachments whose integration context
\* (with _token) is POSTed back from a loopback address, keys in any order,
\* under the secret it was built with, passes every gate; the event is
\* enqueued once and the response is 200.
C12_BuiltButtonPassesGates ==
    [][/\ (/\ pc = "reading" /\ pc' # "reading"
           /\ rd'.promise = "resolved" /\ rd'.chunks # <<>> /\ req.body.json
           /\ req.remoteAddress \in LOCALHOST_ADDRESSES
           /\ interactionSecret # Undefined
           /\ RequestContext \in ProducedButtonContexts(interactionSecret))
          => pc' \in {"resolving", "fetching"}
       /\ (/\ pc' = "done" /\ PastGates'
           /\ \E b \in BotTokens :
                 RequestContext \in ProducedButtonContexts(DerivedSecret(b)))
          => (Len(CallsTo("enqueueSystemEvent")') = 1 /\ res'.statusCode = 200)]_vars

\* The bot token of an account: each account has its own credential.
BotTokenOf(accountId) == IF accountId = "default" THEN "token-a" ELSE "token-b"
SecretOfAccount(accountId) ==
    "hmac(openclaw-mattermost-interactions," \o BotTokenOf(accountId) \o ")"
IssuedTokenSubmitted ==
    /\ cdPhase = "verified" /\ cdKind = "candidate"
    /\ cdArg = cdCtx /\ CodeUnits(cdTok) = CodeUnits(cdToken)

\* C14: secrets are per account: establishing the secret of one account leaves
\* the secret of every other account as it was, so a token issued for
\* account A still verifies after account B has been initialised with a
\* different credential.
C14_SecretsPerAccount ==
    \A a, b \in AccountIds :
        (/\ IssuedTokenSubmitted
         /\ cdSecret = SecretOfAccount(a)
         /\ cdBotToken = BotTokenOf(b)) => cdResult = "true"

\* C15: the secret after setInteractionSecret(t) is a function of t alone,
\* whatever was called before; a token issued by another process initialised
\* with the same bot token verifies here, and one issued under a different
\* bot token does not: different bot tokens give different secrets.
C15_SecretFunctionOfBotToken ==
    /\ interactionSecret =
          IF cdBotToken = "none" THEN Undefined
          ELSE "hmac(openclaw-mattermost-interactions," \o cdBotToken \o ")"
    /\ \A a, b \in AccountIds :
          (/\ cdPhase = "verified" /\ cdKind = "foreign"
           /\ cdSecret = SecretOfAccount(a)
           /\ cdVerSecret = SecretOfAccount(b)) => (cdResult = "true" <=> a = b)
C15_Witness ==
    /\ cdPhase = "verified" /\ cdKind = "foreign"
    /\ cdSecret = SecretOfAccount("work")
    /\ cdVerSecret = cdSecret
    /\ interactionSecret = cdSecret
    /\ cdResult = "true"

\* What C16 says of the token functions: under an undefined secret
\* generateInteractionToken and verifyInteractionToken throw, no token is
\* issued and none accepted; and a call that threw left the secret undefined.
TokenCallsNeedSecret ==
    /\ cdPhase = "threw" => (cdSecret = Undefined /\ cdToken = <<>> /\ cdResult = "throws")
    /\ cdPhase = "signed" => (cdSecret # Undefined /\ StringLength(cdToken) = HexDigestLen)
    /\ cdPhase = "verified" => (cdVerSecret = Undefined <=> cdResult = "throws")
    /\ bbPhase = "threw" => (bbSecret = Undefined /\ bbResult = <<>>)
    /\ (bbPhase = "built" /\ bbSecret = Undefined) => bbResult[1].actions = <<>>
ThrowingStep ==
    \/ cdResult' = "throws" /\ cdResult # "throws"
    \/ bbPhase' = "threw" /\ bbPhase # "threw"

\* C16 as stated: before setInteractionSecret is called, getInteractionSecret,
\* generateInteractionToken, verifyInteractionToken and buildButtonAttachments
\* all fail with the not-initialised error.
C16_EveryCallFailsBeforeInit ==
    /\ TokenCallsNeedSecret
    /\ (bbPhase # "idle" /\ bbSecret = Undefined) => bbPhase = "threw"

\* C16: before setInteractionSecret is called, getInteractionSecret fails with
\* the not-initialised error, and so do generateInteractionToken,
\* verifyInteractionToken and buildButtonAttachments given at least one button
\* (with no button it signs nothing and returns an attachment without
\* actions); no token is issued or accepted under an undefined secret, and
\* the failed call leaves the secret as it was.
C16_CallsFailBeforeInit ==
    [][/\ TokenCallsNeedSecret'
       /\ (bbPhase' # "idle" /\ bbSecret' = Undefined /\ bbParams'.buttons # <<>>)
             => bbPhase' = "threw"
       /\ ThrowingStep => (interactionSecret = Undefined /\ interactionSecret' = Undefined)]_vars
C16_Witness ==
    /\ bbPhase = "threw"
    /\ Len(bbParams.buttons) = 2
    /\ interactionSecret = Undefined

---------------------------------------------------------------------------
(* Body reader, origin check, callback registry: claims.                   *)

\* The request was answered 400 "Invalid request body" on the failure of the
\* body read, logged with the given reason: nothing was parsed, no gate after
\* the body was looked at, no collaborator was called.
ReadFailedWith(reason) ==
    /\ rd.promise = "rejected"
    /\ pc = "done"
    /\ ~PastGates
    /\ calls = <<>>
    /\ res.statusCode = 400
    /\ res.body = "{\"error\":\"Invalid request body\"}"
    /\ res.ended = 1
    /\ logs = <<"mattermost interaction: failed to parse body: Error: " \o reason>>

\* C17: when the received chunks add up to more than 64 KiB, the body read
\* fails with the size-limit failure and the request is destroyed; JSON
\* parsing is never attempted on that request and neither dispatch nor post
\* update follows.  (If the timer had fired before, the read had already
\* failed, with the timeout.)
C17_OversizeBodyAborted ==
    rd.totalBytes > 64 * 1024 =>
        /\ rd.destroyed
        /\ ReadFailedWith(IF rd.timer = "fired" THEN "Request body read timeout"
                          ELSE "Request body too large")
C17_Witness ==
    /\ rd.totalBytes = 64 * 1024 + 1
    /\ rd.timer = "cleared"
    /\ rd.destroyed
    /\ RequestContext = ValidContext
    /\ res.statusCode = 400

\* C18: when the body-read timer fires before the body has ended, the request
\* is destroyed and the read fails with the timeout failure; the bytes
\* received are never handed to the JSON parser and neither dispatch nor post
\* update happens, whatever data or end events arrive afterwards.
C18_TimeoutAbortsRead ==
    rd.timer = "fired" =>
        /\ rd.destroyed
        /\ ReadFailedWith("Request body read timeout")
C18_Witness ==
    /\ rd.timer = "fired"
    /\ rd.stream = "ended"
    /\ rd.chunks = <<1>>
    /\ RequestContext = ValidContext
    /\ res.statusCode = 400
    /\ res.ended = 1

---------------------------------------------------------------------------
(* Localhost validation: claims.                                           *)

\* C19: isLocalhostRequest returns true exactly when the socket's remote
\* address is one of the three literals 127.0.0.1, ::1 or ::ffff:127.0.0.1,
\* and false for every other address and when the socket or its remote
\* address is missing.  Seen through the handler: a POST request is answered
\* 403 "Forbidden" exactly when its address is none of the three literals,
\* and goes on to the body read otherwise.
C19_LocalhostExactlyThreeLiterals ==
    LET local == /\ req.socket
                 /\ \/ req.remoteAddress = "127.0.0.1"
                    \/ req.remoteAddress = "::1"
                    \/ req.remoteAddress = "::ffff:127.0.0.1"
        forbidden == /\ pc = "done"
                     /\ res.statusCode = 403
                     /\ res.body = "{\"error\":\"Forbidden\"}"
                     /\ rd = RdIdle
    IN  (pc # "idle" /\ req.method = "POST") =>
            /\ isLocalhostRequest(req) = local
            /\ forbidden = ~local
            /\ local => rd.promise # "none"

\* The mapped loopback literal has been admitted to the body read.
C19_Witness ==
    /\ req.method = "POST"
    /\ req.socket
    /\ req.remoteAddress = "::ffff:127.0.0.1"
    /\ pc = "reading"
    /\ rd.promise = "pending"

---------------------------------------------------------------------------
(* Callback URL registry: claims.                                          *)

\* The fallback URL, from the configuration as the caller wrote it.
ExpectedFallback(accountId, cfg) ==
    LET numbered == /\ HasKey(cfg, "gateway")
                    /\ HasKey(Get(cfg, "gateway"), "port")
                    /\ Get(Get(cfg, "gateway"), "port").t = "num"
    IN  "http://localhost:"
        \o (IF numbered THEN Get(Get(cfg, "gateway"), "port").v ELSE "18789")
        \o "/mattermost/interactions/" \o accountId

\* What each registry call does, given when a registration counts as one:
\* a registration replaces the account's entry and nothing else, a lookup
\* returns the entry or undefined, a resolution returns the entry when it
\* counts and the fallback URL otherwise.
RegistryStep(counts(_)) ==
    LET a == cbQuery'.accountId
        registered == callbackUrls[a]
    IN  /\ cbQuery'.fn = "set" =>
               /\ callbackUrls'[a] = cbQuery'.url
               /\ \A b \in AccountIds \ {a} :
                      /\ callbackUrls'[b] = callbackUrls[b]
                      /\ \A cfg \in GatewayConfigs :
                             resolveInteractionCallbackUrl(callbackUrls', b, cfg)
                                 = resolveInteractionCallbackUrl(callbackUrls, b, cfg)
        /\ cbQuery'.fn = "get" =>
               /\ cbResult' = registered
               /\ callbackUrls' = callbackUrls
        /\ cbQuery'.fn = "resolve" =>
               /\ callbackUrls' = callbackUrls
               /\ cbResult' = IF counts(registered) THEN registered
                              ELSE ExpectedFallback(a, cbQuery'.cfg)

\* C20 (as stated): after any sequence of setInteractionCallbackUrl calls,
\* resolveInteractionCallbackUrl returns the URL last registered for the
\* account whenever a registration exists, and the fallback URL on port
\* cfg.gateway.port (when a number) or 18789 otherwise;
\* getInteractionCallbackUrl returns the last registered value or undefined,
\* and registering one account changes nothing for another.
C20_ResolvesAnyRegistration ==
    [][RegistryStep(LAMBDA url : url # Undefined)]_registryVars

\* C20 (amended): as above, but only a non-empty registered URL is resolved
\* to; an account registered with the empty string resolves to the fallback
\* URL, as an account that was never registered does.
C20_ResolvesNonEmptyRegistration ==
    [][RegistryStep(LAMBDA url : url # Undefined /\ url # "")]_registryVars

\* An account was registered and resolves to its URL under a configuration
\* that names another port, while the other account holds its own entry.
C20_Witness ==
    /\ cbQuery.fn = "resolve"
    /\ cbQuery.accountId = "work"
    /\ cbQuery.cfg = Obj(<<Member("gateway", Obj(<<Member("port", Num("9999"))>>))>>)
    /\ callbackUrls["work"] = "http://cached:1234/path"
    /\ callbackUrls["default"] = ""
    /\ cbResult = "http://cached:1234/path"

---------------------------------------------------------------------------
(* Slack handler: claims.                                                  *)

\* The chat.update call of an invocation (its last call, once made).
SentUpdate(h) == slInv[h].pc \in {"updating", "done"} /\ slInv[h].body.hasMessage
UpdateOf(h) == slInv[h].calls[Len(slInv[h].calls)]
ActionBlocksOf(blocks) == SelectSeq(blocks, LAMBDA b : b.type = "actions")
HasIndividualButton(b) ==
    \E i \in 1..Len(b.elements) :
        \A k \in 1..Len(b.elements[i].action_id) : b.elements[i].action_id[k] # "_all_"

\* C21: the block transformation is idempotent: for every layout and every
\* clicked block id, applying it to its own output for the same click gives
\* that output unchanged.  Checked on the layout the platform stores, for
\* every block id and label, and on every layout the handler has sent.
C21_TransformIdempotent ==
    /\ \A id \in ActionBlockIds \cup {Undefined}, label \in {"Approve", "openclaw:approve_2"} :
           LET once == UpdatedBlocks(slMessage, id, label)
           IN  UpdatedBlocks(once, id, label) = once
    /\ SentUpdate(1) =>
           UpdatedBlocks(UpdateOf(1).blocks, slInv[1].action.block_id, ButtonText(slInv[1].action))
               = UpdateOf(1).blocks

\* The last individual row was clicked: the pruned layout was stored, and
\* transforming it again changes nothing.
C21_Witness ==
    /\ slInv[1].pc = "done"
    /\ slInv[1].action.block_id = "b"
    /\ slInv[1].body.blocks = <<Section, IndividualB, BulkRow>>
    /\ UpdateOf(1).result = "ok"
    /\ slMessage = <<Section, Confirmation("openclaw:approve_2")>>

\* C22: after the clicked block is replaced, the bulk rows (every
\* element's action_id contains "_all_") are removed exactly when no
\* individual row remains: if one remains no block is removed and the
\* layout keeps its length; if none remains every bulk row is removed.  For
\* the layout individual row, divider, bulk row, a click on the individual
\* button leaves only the confirmation and the unrelated blocks.
C22_BulkRemovedIffNoIndividualRemains ==
    SentUpdate(1) =>
        LET input == slInv[1].body.blocks
            out == UpdateOf(1).blocks
            clicked(i) == input[i].type = "actions" /\ input[i].block_id = slInv[1].action.block_id
            individualRemains ==
                \E i \in 1..Len(input) :
                    input[i].type = "actions" /\ ~clicked(i) /\ HasIndividualButton(input[i])
            unrelated(b) == b.type \in {"section", "context"}
        IN  /\ individualRemains =>
                /\ Len(out) = Len(input)
                /\ \A i \in 1..Len(input) :
                       out[i] = IF clicked(i) THEN Confirmation(ButtonText(slInv[1].action))
                                ELSE input[i]
            /\ ~individualRemains =>
                /\ ActionBlocksOf(out) = <<>>
                /\ SelectSeq(out, unrelated)
                       = SelectSeq([i \in 1..Len(input) |->
                                       IF clicked(i) THEN Confirmation(ButtonText(slInv[1].action))
                                       ELSE input[i]], unrelated)
            /\ (input = <<IndividualA, Divider, BulkRow>> /\ slInv[1].action.block_id = "a")
                   => out = <<Confirmation("Approve")>>
            /\ (input = <<Section, IndividualA, BulkRow>> /\ slInv[1].action.block_id = "a")
                   => out = <<Section, Confirmation("Approve")>>

\* The sole individual button of individual row, divider, bulk row was
\* clicked and the platform stored the confirmation alone.
C22_Witness ==
    /\ slInv[1].pc = "done"
    /\ slInv[1].body.blocks = <<IndividualA, Divider, BulkRow>>
    /\ slInv[1].action.block_id = "a"
    /\ UpdateOf(1).result = "ok"
    /\ slMessage = <<Confirmation("Approve")>>

HasActionsBlock(blocks, id) ==
    \E i \in 1..Len(blocks) : blocks[i].type = "actions" /\ blocks[i].block_id = id
UpdateStored(h) == slInv[h].pc = "done" /\ slInv[h].body.hasMessage /\ UpdateOf(h).result = "ok"

\* C23: once a control's block has been written to the message as a
\* confirmation, no later update writes it back as an interactive block:
\* after two clicks on different actions blocks of one message, handled
\* concurrently, the stored message shows neither block as interactive.
C23_ConfirmedBlockStaysConfirmed ==
    \A h \in SlackHandlers :
        UpdateStored(h) => ~HasActionsBlock(slMessage, slInv[h].action.block_id)

SlackCallsTo(h, fn) == SelectSeq(slInv[h].calls, LAMBDA c : c.fn = fn)
AckCompleted(h) == slInv[h].calls # <<>> /\ slInv[h].calls[1].result = "ok"

\* C26: in the Slack handler ack() completes before the session key is
\* resolved, before the system event is enqueued and before chat.update is
\* called; the system event is enqueued exactly once per handled action;
\* a failure of chat.update is swallowed: the handler ends normally, the
\* ack and the enqueued event stand.
C26_AckFirstEnqueueOnce ==
    \A h \in SlackHandlers :
        LET cs == slInv[h].calls
            after == {"log", "resolveSlackSystemEventSessionKey", "enqueueSystemEvent", "chat.update"}
            position(fn) == CHOOSE i \in 1..Len(cs) : cs[i].fn = fn
        IN  /\ cs # <<>> => cs[1].fn = "ack"
            /\ \A i \in 1..Len(cs) : cs[i].fn \in after => (i > 1 /\ cs[1].result = "ok")
            /\ Len(SlackCallsTo(h, "enqueueSystemEvent")) = (IF AckCompleted(h) THEN 1 ELSE 0)
            /\ Len(SlackCallsTo(h, "chat.update")) <= 1
            /\ SlackCallsTo(h, "chat.update") # <<>> =>
                   /\ position("resolveSlackSystemEventSessionKey") < position("enqueueSystemEvent")
                   /\ position("enqueueSystemEvent") < position("chat.update")
                   /\ cs[position("enqueueSystemEvent")].result = "ok"
            /\ (SlackCallsTo(h, "chat.update") # <<>> /\ UpdateOf(h).result = "rejected") =>
                   /\ slInv[h].pc = "done"
                   /\ AckCompleted(h)
                   /\ cs[position("enqueueSystemEvent")].result = "ok"

\* chat.update failed after the event was enqueued: the handler is done,
\* the message is as it was.
C26_Witness ==
    /\ slInv[1].pc = "done"
    /\ slInv[1].body.hasMessage
    /\ UpdateOf(1).fn = "chat.update"
    /\ UpdateOf(1).result = "rejected"
    /\ Len(SlackCallsTo(1, "enqueueSystemEvent")) = 1
    /\ slMessage = slInv[1].body.blocks

---------------------------------------------------------------------------
(* What the Mattermost subsystem emits: claims.                            *)

\* s.includes(x)
Contains(s, x) == \E i \in 1..(Len(s) - Len(x) + 1) : SubSeq(s, i, i + Len(x) - 1) = x
\* Every signing secret the process may hold.
Secrets == {DerivedSecret(b) : b \in BotTokens}

\* The segments of the strings of a JSON value, keys included.
RECURSIVE NodeSegments(_)
NodeSegments(n) ==
    {Text(n.k)} \cup
    (IF n.t = "str" THEN Range(n.kids)
     ELSE IF n.t \in {"obj", "arr"} THEN UNION {NodeSegments(n.kids[i]) : i \in 1..Len(n.kids)}
     ELSE {Text(n.v)})
\* A segment shows the secret: it is the secret's own hex string, or a text
\* that holds it.  (The hex string of a digest keyed by the secret is a
\* token, not the secret.)
ShowsSecret(g, secret) ==
    IF g.seg = "hex" THEN g.d = secret ELSE Contains(g.d, secret)

AttachmentSegments ==
    UNION {{Text(bbResult[a].text)} \cup
           UNION {{Text(b.id), Text(b.type), Text(b.name), Text(b.style), Text(b.integration.url)}
                  \cup NodeSegments(b.integration.context) : b \in Range(bbResult[a].actions)}
           : a \in 1..Len(bbResult)}
CallTexts(c) ==
    IF c.fn = "resolveSessionKey" THEN {StringText(c.args[1].kids)} ELSE Range(c.args)
HandlerTexts ==
    Range(logs) \cup {res.body, res.allow, res.contentType}
    \cup UNION {CallTexts(calls[i]) : i \in 1..Len(calls)}
SubmittedToken == GetProperty(GetProperty(req.body.value, "context"), "_token")
TokenRejected ==
    /\ pc = "done"
    /\ res.statusCode = 403
    /\ SubmittedToken.t = "str"
    /\ StringLength(SubmittedToken.kids) > 0

\* C24: the signing secret never appears in anything the subsystem emits:
\* not in the attachments returned by buildButtonAttachments, not in a
\* response body or header, not in the arguments of enqueueSystemEvent or of
\* the post update, not in a log message; and the log messages for a
\* rejected token never contain the submitted token value.
C24_SecretNeverEmitted ==
    /\ \A secret \in Secrets :
           /\ \A g \in AttachmentSegments : ~ShowsSecret(g, secret)
           /\ \A t \in HandlerTexts : ~Contains(t, secret)
    /\ TokenRejected =>
           \A i \in 1..Len(logs) : ~Contains(logs[i], StringText(SubmittedToken.kids))

\* A token of the right length was rejected under an initialised secret,
\* and the rejection was logged.
C24_Witness ==
    /\ TokenRejected
    /\ interactionSecret \in Secrets
    /\ StringLength(SubmittedToken.kids) = HexDigestLen
    /\ res.body = "{\"error\":\"Invalid token\"}"
    /\ logs # <<>>

---------------------------------------------------------------------------
(* Mattermost handler: the response and the order of its effects.          *)

\* C27: every invocation of the Mattermost handler ends the HTTP response
\* exactly once, whatever the method, remote address, body (valid JSON that
\* is not an object included), context, token and collaborator outcome: it
\* never finishes or throws without having responded, and never responds
\* twice.
C27_RespondsExactlyOnce ==
    /\ res.ended <= 1
    /\ Finished => res.ended = 1

\* C28: handling a request never writes the shared state: every step of the
\* handler leaves the signing secret and the callback registry unchanged;
\* the secret changes only by setInteractionSecret (to the secret derived
\* from the bot token it is given) and the registry only by
\* setInteractionCallbackUrl (in the one account it is given).
SecretInitialised ==
    /\ interactionSecret' = DerivedSecret(cdBotToken')
    /\ callbackUrls' = callbackUrls
UrlRegistered ==
    /\ interactionSecret' = interactionSecret
    /\ cbQuery'.fn = "set"
    /\ callbackUrls' = [callbackUrls EXCEPT ![cbQuery'.accountId] = cbQuery'.url]
C28_HandlerLeavesSharedState ==
    [][/\ handlerVars' # handlerVars =>
            (interactionSecret' = interactionSecret /\ callbackUrls' = callbackUrls)
       /\ (interactionSecret' # interactionSecret \/ callbackUrls' # callbackUrls) =>
            (handlerVars' = handlerVars /\ (SecretInitialised \/ UrlRegistered))]_vars

\* A verified request was served to its end while the secret was set and the
\* account's callback URL registered.
C28_Witness ==
    /\ pc = "done"
    /\ PastGates
    /\ res.statusCode = 200
    /\ interactionSecret = DerivedSecret(cdBotToken)
    /\ callbackUrls[params.accountId] = RegisteredUrl

\* C29: for a request that passes all gates the effects occur in the order
\* session-key resolution, enqueue of the system event, fetch of the
\* original post, update of the post, 200 response: a collaborator is called
\* only when every earlier call has settled, and the response is sent only
\* when no call is pending and is the last effect.
EffectOrder ==
    <<"resolveSessionKey", "enqueueSystemEvent", "client.request", "updateMattermostPost">>
EffectRank(fn) == CHOOSE k \in 1..Len(EffectOrder) : EffectOrder[k] = fn
C29_EffectsInOrder ==
    PastGates =>
        /\ \A i, j \in 1..Len(calls) : i < j => EffectRank(calls[i].fn) < EffectRank(calls[j].fn)
        /\ \A i \in 1..Len(calls) : i < Len(calls) => calls[i].result # "pending"
        /\ res.ended > 0 =>
              /\ res.statusCode = 200
              /\ pc = "done"
              /\ \A i \in 1..Len(calls) : calls[i].result # "pending"

\* All four effects happened, each one succeeding, and the 200 was sent.
C29_Witness ==
    /\ pc = "done"
    /\ res.statusCode = 200
    /\ [i \in 1..Len(calls) |-> calls[i].fn] = EffectOrder
    /\ \A i \in 1..Len(calls) : calls[i].result \notin {"pending", "rejected", "throws"}

\* C30: for each request enqueueSystemEvent is invoked at most once and the
\* post update (its fetch and its write) at most once; after a failure of
\* either step it is not tried again.
C30_NoRetry ==
    /\ Len(CallsTo("enqueueSystemEvent")) <= 1
    /\ Len(CallsTo("client.request")) <= 1
    /\ Len(CallsTo("updateMattermostPost")) <= 1

\* Both steps failed, and the handler responded after one attempt at each.
C30_Witness ==
    /\ pc = "done"
    /\ res.statusCode = 200
    /\ \E i \in 1..Len(calls) :
           calls[i].fn = "enqueueSystemEvent" /\ calls[i].result = "throws"
    /\ \E i \in 1..Len(calls) :
           calls[i].fn = "updateMattermostPost" /\ calls[i].result = "rejected"
    /\ Len(CallsTo("enqueueSystemEvent")) = 1
    /\ Len(CallsTo("updateMattermostPost")) = 1

---------------------------------------------------------------------------
(* Slack handler: what the block transformation replaces, removes, keeps.  *)

\* The click being handled, the layout it was made in and the layout sent.
InputBlocks == slInv[1].body.blocks
WrittenBlocks == UpdateOf(1).blocks
ClickedAt(i) ==
    InputBlocks[i].type = "actions" /\ InputBlocks[i].block_id = slInv[1].action.block_id
ClickedLabel ==
    IF slInv[1].action.text = Undefined THEN ConcatAll(slInv[1].action.action_id)
    ELSE slInv[1].action.text
ExpectedConfirmation ==
    [type |-> "context", block_id |-> Undefined,
     elements |-> <<[type |-> "mrkdwn", action_id |-> <<>>,
                     text |-> "U+2713 *" \o ClickedLabel \o "* selected", value |-> Undefined]>>]
\* The input with the clicked block replaced in place.
ReplacedInPlace ==
    [i \in 1..Len(InputBlocks) |-> IF ClickedAt(i) THEN ExpectedConfirmation ELSE InputBlocks[i]]
BulkAt(i) ==
    InputBlocks[i].type = "actions" /\ ~ClickedAt(i) /\ ~HasIndividualButton(InputBlocks[i])
\* Bulk blocks are being removed: no individual row is left beside the click.
Pruning ==
    ~\E i \in 1..Len(InputBlocks) :
        InputBlocks[i].type = "actions" /\ ~ClickedAt(i) /\ HasIndividualButton(InputBlocks[i])
DividerDropped(i) ==
    /\ InputBlocks[i].type = "divider"
    /\ Pruning
    /\ i < Len(InputBlocks)
    /\ BulkAt(i + 1)
RECURSIVE PickFrom(_, _, _)
PickFrom(blocks, keep, i) ==
    IF i > Len(blocks) THEN <<>>
    ELSE (IF i \in keep THEN <<blocks[i]>> ELSE <<>>) \o PickFrom(blocks, keep, i + 1)
\* The written layout is the replaced input restricted to the positions keep.
WrittenKeeps(keep) == WrittenBlocks = PickFrom(ReplacedInPlace, keep, 1)

\* C36: every actions block whose block_id is the clicked one is replaced,
\* whole and in place, by one confirmation context block carrying the
\* clicked control's label (its text, or its action id when it has none);
\* its sibling controls go with it, and no actions block with the clicked
\* block id remains in the layout written.
C36_ClickedBlockReplacedWhole ==
    SentUpdate(1) =>
        /\ ~HasActionsBlock(WrittenBlocks, slInv[1].action.block_id)
        /\ \E keep \in SUBSET (1..Len(InputBlocks)) :
               /\ \A i \in 1..Len(InputBlocks) : ClickedAt(i) => i \in keep
               /\ WrittenKeeps(keep)

\* The second button of the bulk row was clicked while an individual row
\* remained: the whole row became the confirmation of that button.
C36_Witness ==
    /\ slInv[1].pc = "done"
    /\ InputBlocks = <<IndividualA, BulkRow>>
    /\ slInv[1].action.text = "Deny all"
    /\ UpdateOf(1).result = "ok"
    /\ slMessage = <<IndividualA, Confirmation("Deny all")>>

\* C37: a divider is removed exactly when bulk blocks are being removed and
\* the block right after it is a bulk actions block; every other divider is
\* kept, also one before the clicked block or two positions before a bulk
\* block.
C37_DividerRemovedOnlyBeforeBulk ==
    SentUpdate(1) =>
        /\ \E keep \in SUBSET (1..Len(InputBlocks)) :
               /\ \A i \in 1..Len(InputBlocks) :
                      InputBlocks[i].type = "divider" => (i \in keep <=> ~DividerDropped(i))
               /\ WrittenKeeps(keep)
        /\ Len(SelectSeq(WrittenBlocks, LAMBDA b : b.type = "divider"))
               = Cardinality({i \in 1..Len(InputBlocks) :
                                 InputBlocks[i].type = "divider" /\ ~DividerDropped(i)})

\* The last individual row was clicked: the divider before the bulk row went
\* with it.
C37_Witness ==
    /\ slInv[1].pc = "done"
    /\ InputBlocks = <<IndividualB, Divider, BulkRow>>
    /\ UpdateOf(1).result = "ok"
    /\ slMessage = <<Confirmation("openclaw:approve_2")>>

\* C38: every block that is neither the clicked block, a removed bulk
\* actions block nor a removed divider is written unchanged and in its
\* original relative order; blocks of a kind the transformation does not
\* know always pass through unchanged.
C38_OtherBlocksUnchanged ==
    SentUpdate(1) =>
        /\ \E keep \in SUBSET (1..Len(InputBlocks)) :
               /\ \A i \in 1..Len(InputBlocks) :
                      (~ClickedAt(i) /\ ~(Pruning /\ BulkAt(i)) /\ ~DividerDropped(i)) => i \in keep
               /\ WrittenKeeps(keep)
        /\ SelectSeq(WrittenBlocks, LAMBDA b : b.type = "section")
               = SelectSeq(InputBlocks, LAMBDA b : b.type = "section")

\* One of two individual rows was clicked: the section and the other row are
\* as they were.
C38_Witness ==
    /\ slInv[1].pc = "done"
    /\ InputBlocks = <<Section, IndividualA, IndividualB>>
    /\ slInv[1].action.block_id = "a"
    /\ UpdateOf(1).result = "ok"
    /\ slMessage = <<Section, Confirmation("Approve"), IndividualB>>

\* C39: in the Slack handler dispatch and message update are independent:
\* whenever channel id, message timestamp and message are present, the
\* message update is attempted whether or not session-key resolution and
\* enqueueSystemEvent succeeded.
C39_UpdateAttemptedWhateverDispatch ==
    \A h \in SlackHandlers :
        (slInv[h].pc \in {"done", "threw"} /\ AckCompleted(h)
         /\ slInv[h].body.channel # Undefined /\ slInv[h].body.ts # Undefined
         /\ slInv[h].body.hasMessage)
            => SlackCallsTo(h, "chat.update") # <<>>

---------------------------------------------------------------------------
(* Body reader: how the read settles and what it buffers.                  *)

RECURSIVE BufferedBytes(_)
BufferedBytes(chunks) ==
    IF chunks = <<>> THEN 0 ELSE Head(chunks) + BufferedBytes(Tail(chunks))
ReadSettled == rd.promise \in {"resolved", "rejected"}

\* C32: readInteractionBody always settles, with the one outcome of
\* whichever comes first: the end of the request (resolved, with all the
\* chunks received), an error, a byte count over the limit, or the timer;
\* events arriving afterwards do not change the outcome, and after an end,
\* an error or a size failure no timer remains pending.
C32_ReadSettlesOnce ==
    /\ [][/\ (ReadSettled /\ pc' # "idle") => rd'.promise = rd.promise
          /\ (rd.promise = "pending" /\ rd'.promise = "resolved") =>
                (rd'.stream = "ended" /\ rd.stream = "open" /\ rd'.chunks = rd.chunks
                 /\ BufferedBytes(rd.chunks) = rd.totalBytes)
          /\ (rd.promise = "pending" /\ rd'.promise = "rejected") =>
                \/ rd'.stream = "errored" /\ rd.stream = "open"
                \/ rd'.totalBytes > INTERACTION_MAX_BODY_BYTES
                     /\ rd.totalBytes <= INTERACTION_MAX_BODY_BYTES
                \/ rd'.timer = "fired" /\ rd.timer = "pending"
          /\ (rd'.stream # "open" \/ rd'.totalBytes > INTERACTION_MAX_BODY_BYTES) =>
                (rd'.timer # "pending" /\ rd'.promise \in {"resolved", "rejected"})]_vars
    /\ (rd.promise = "pending") ~> ReadSettled

\* An error arrived after the size failure had settled the read: the read
\* is still rejected as too large and no timer is pending.
C32_Witness ==
    /\ ReadFailedWith("Request body too large")
    /\ rd.stream = "errored"
    /\ rd.timer = "cleared"
    /\ rd.events = 2

\* C33: the bytes buffered by readInteractionBody never exceed 65536, for
\* every chunking and also after a size failure; a body of exactly 65536
\* bytes is accepted in full and one of 65537 bytes or more is rejected.
C33_BufferNeverExceedsLimit ==
    /\ BufferedBytes(rd.chunks) <= INTERACTION_MAX_BODY_BYTES
    /\ BufferedBytes(rd.chunks) <= rd.totalBytes
    /\ rd.totalBytes > INTERACTION_MAX_BODY_BYTES => rd.promise = "rejected"
    /\ rd.promise = "resolved" =>
           (BufferedBytes(rd.chunks) = rd.totalBytes /\ rd.totalBytes <= INTERACTION_MAX_BODY_BYTES)
    /\ ReadFailedWith("Request body too large") => rd.totalBytes > INTERACTION_MAX_BODY_BYTES
    /\ (rd.totalBytes = INTERACTION_MAX_BODY_BYTES /\ rd.stream = "ended" /\ rd.timer # "fired")
           => rd.promise = "resolved"

\* A body of exactly 65536 bytes was read to its end and handed on whole.
C33_Witness ==
    /\ rd.promise = "resolved"
    /\ rd.totalBytes = INTERACTION_MAX_BODY_BYTES
    /\ BufferedBytes(rd.chunks) = INTERACTION_MAX_BODY_BYTES
    /\ pc = "done"
    /\ res.statusCode = 200

---------------------------------------------------------------------------
(* Mattermost handler: the post update and redelivery.                     *)

FetchCalls == CallsTo("client.request")
UpdateCalls == CallsTo("updateMattermostPost")
FirstCallsTo(fn) == SelectSeq(mmFirst.calls, LAMBDA c : c.fn = fn)
\* The ids of the buttons of a layout that sit in attachments without the
\* button of the given id.
ButtonIdsOf(attachment) ==
    IF HasKey(attachment, "actions")
    THEN {StringText(Get(b, "id").kids) : b \in Range(Get(attachment, "actions").kids)}
    ELSE {}
ControlsOutsideBlockOf(props, id) ==
    UNION {ButtonIdsOf(a) : a \in {x \in Range(Get(props, "attachments").kids) :
                                      id \notin ButtonIdsOf(x)}}
\* The props written for the button approve clicked by the given user.
ConfirmationProps(user) ==
    "{\"attachments\":[{\"text\":\"U+2713 **approve** selected by @" \o user \o "\"}]}"
ClickingUser == IF HasKey(payload, "user_name") THEN "alice" ELSE "u1"

\* C31: handling the same valid callback payload a second time gives the
\* same 200 response, an enqueue call with the same label and context key
\* (and the same session key, whenever the session key is resolved to the
\* same value) and a post update that writes the same content as the first:
\* the post after two deliveries equals the post after one.
SecondDelivered == mmFirst # NoDelivery /\ pc = "done" /\ PastGates
SameResolution ==
    \/ ~params.hasResolver
    \/ /\ mmFirst.calls # <<>> /\ calls # <<>>
       /\ mmFirst.calls[1].result = calls[1].result
C31_RedeliveryRepeats ==
    SecondDelivered =>
        /\ req = mmFirst.req
        /\ res = mmFirst.res
        /\ res.statusCode = 200 /\ res.body = "{}" /\ res.ended = 1
        /\ \A c \in Range(CallsTo("enqueueSystemEvent")),
              d \in Range(FirstCallsTo("enqueueSystemEvent")) :
               /\ c.args[1] = d.args[1]
               /\ c.args[3] = d.args[3]
               /\ SameResolution => c.args[2] = d.args[2]
        /\ \A c \in Range(UpdateCalls), d \in Range(FirstCallsTo("updateMattermostPost")) :
               c.args = d.args
        /\ (FirstCallsTo("updateMattermostPost") # <<>>
            /\ FirstCallsTo("updateMattermostPost")[1].result = "ok") => mmPost = mmFirst.post

\* Both deliveries enqueued the event and updated the post, which had no
\* message text to begin with.
C31_Witness ==
    /\ SecondDelivered
    /\ FirstCallsTo("enqueueSystemEvent") # <<>>
    /\ CallsTo("enqueueSystemEvent") # <<>>
    /\ FirstCallsTo("updateMattermostPost") # <<>>
    /\ FirstCallsTo("updateMattermostPost")[1].result = "ok"
    /\ UpdateCalls # <<>>
    /\ UpdateCalls[1].result = "ok"
    /\ mmPost.message = ""

C35_UpdateOnlyAfterFetch ==
    /\ UpdateCalls # <<>> =>
           /\ FetchCalls # <<>>
           /\ FetchCalls[1].result = "ok"
           /\ calls[Len(calls)].fn = "updateMattermostPost"
           /\ calls[Len(calls) - 1].fn = "client.request"
           /\ ~Contains(UpdateCalls[1].args[3], "actions")
           /\ ~Contains(UpdateCalls[1].args[3], "integration")
    /\ (FetchCalls # <<>> /\ FetchCalls[1].result = "rejected") => UpdateCalls = <<>>
    /\ (FetchCalls # <<>> /\ FetchCalls[1].result = "ok") => UpdateCalls # <<>>
    /\ pc = "updating" =>
           UpdateCalls[1].args[2] = (IF mmPost.message = Undefined THEN "" ELSE mmPost.message)
    /\ (pc = "done" /\ UpdateCalls # <<>> /\ UpdateCalls[1].result = "ok") =>
           mmPost.message = UpdateCalls[1].args[2]

\* The post had a message text and buttons: the update kept the text.
C35_Witness ==
    /\ pc = "done"
    /\ mmFirst = NoDelivery
    /\ UpdateCalls # <<>>
    /\ UpdateCalls[1].result = "ok"
    /\ UpdateCalls[1].args[2] = "hello"
    /\ mmPost.message = "hello"

=============================================================================
